---- MODULE Spec2Model ----
(***************************************************************************)
(* Model of kesor/chatgpt-code-plugin: the ignore-aware file indexer       *)
(* (getFileList of file-utils.ts) and the symbol extractor                 *)
(* (findFunctionsInFile, getFunctionData, getFunctionList and minimize of  *)
(* function-utils.ts) with the request handlers of index.ts that call      *)
(* them, the handlers of the /files/* routes with the error handler of     *)
(* error-handler.ts, and runCommand of cmd-runner.ts.  A source text is a  *)
(* sequence of characters.                                                 *)
(*                                                                         *)
(* Paths are sequences of segment names.  The text of a rule file and a    *)
(* pattern are sequences of tokens: a token is a segment name or one of    *)
(* the characters the code and the ignore library look at: hash, bang,    *)
(* slash, star, double star, dot and the line terminators.  Names are      *)
(* lower case, so the library's case folding is the identity on them; a    *)
(* glob inside a segment is outside the token alphabet.                    *)
(***************************************************************************)
EXTENDS Integers, Sequences, FiniteSets, TLC

VARIABLES
  root,        \* originalRoot of the traversal: [abs, segs]
  rootExists,  \* whether the root directory exists
  tree,        \* the file system under root: set of root-relative paths
  buildIsFile, \* whether a leaf entry named "build" is a regular file
  denied,      \* entries whose metadata cannot be read (stat throws EACCES)
  rootText,    \* content of the rule file at the root
  nestedText,  \* content of a rule file in a nested directory
  descending,  \* order in which readdir returns the names of a directory
  st,          \* per invocation: "idle", "running", "done", "failed"
  stack,       \* per invocation: the frames of the recursive getFileList calls
  ig,          \* per invocation: the rules of its ignore() instance
  ret,         \* per invocation: the value the promise resolved to
  err,         \* per invocation: the error the promise rejected with
  readdirLog,  \* per invocation: directories whose entries were read
  statLog,     \* per invocation: entries that were passed to fs.promises.stat
  pruned,      \* per invocation: entries skipped by the ignore check
  ast,         \* findFunctionsInFile: the body of the parsed program
  cursor,      \* findFunctionsInFile: index of the next node of ast.body
  functions,   \* findFunctionsInFile: the symbols pushed so far
  fileContent, \* getFunctionData: the text of the file
  unparsable,  \* getFunctionData: whether parse(fileContent) throws
  functionName,\* getFunctionContent: the requested function name
  functionCode,\* getFunctionContent: the value getFunctionData resolved to
  res,         \* the response sent to the client
  thrown,      \* the error a handler caught and passed to the error handler
  request,     \* getFunctionList: the request, [kind, fileName]
  sources,     \* getFunctionList: what each .ts or .js file holds
  lpc,         \* getFunctionList: "start", "loop", "done" or "failed"
  files,       \* getFunctionList: the files of the loop still to visit
  functionList,\* getFunctionList: the entries pushed so far
  readLog,     \* getFunctionList: the files read and given to the parser
  body,        \* minimize: its argument
  minimal,     \* minimize: the value it returned
  disk,        \* /files/*: the file system, absolute path -> [kind, content, readable]
  original,    \* /files/*: the file system when the request arrived
  overwrite,   \* /files/*: the value of the environment variable ALLOW_OVERWRITE
  hreq,        \* /files/*: the request
  hpc,         \* /files/*: the await the route handler is suspended at
  writes,      \* /files/*: the responses passed to res.send or res.json
  sent,        \* /files/*: the response the client received
  nexts,       \* /files/*: the errors passed to next, each with its answer
  accessLog,   \* /files/*: the file system calls of the handler
  command,     \* runCommand: its argument command
  strict,      \* runCommand: its argument strict
  spawned,     \* runCommand: the commands given to spawn
  outcome      \* runCommand: "none", "thrown", "running", "resolved" or "rejected"

fsVars == <<root, rootExists, tree, buildIsFile, denied, rootText, nestedText, descending>>
runVars == <<st, stack, ig, ret, err, readdirLog, statLog, pruned>>
fnVars == <<ast, cursor, functions, fileContent, unparsable, functionName, functionCode, res, thrown>>
minVars == <<body, minimal>>
listVars == <<request, sources, lpc, files, functionList, readLog>>
httpVars == <<disk, original, overwrite, hreq, hpc, writes, sent, nexts, accessLog>>
cmdVars == <<command, strict, spawned, outcome>>
vars == <<fsVars, runVars, fnVars, minVars, listVars, httpVars, cmdVars>>

\* ---------------------------------------------------------------- bounds

\* Largest number of top-level statements of a parsed program.
MaxStatements == 2

\* Largest number of entries of a file system under the root.
MaxEntries == 5

\* The same, when two invocations run concurrently.
MaxEntriesConcurrent == 3

\* Largest number of characters of a text given to minimize.
MaxChars == 7

\* Largest number of entries of a file system whose functions are listed.
MaxListEntries == 4

\* Largest number of entries of a file system with symbolic links.
MaxLinkEntries == 3

\* Largest number of symbolic links the system follows to resolve one path
\* (40 on Linux); a path with more is refused with ELOOP.
MaxLinks == 2

\* ------------------------------------------------------------ sequences

Last(s) == s[Len(s)]

Front(s) == SubSeq(s, 1, Len(s) - 1)

Prefix(s, k) == SubSeq(s, 1, k)

IsPrefix(p, q) == Len(p) <= Len(q) /\ Prefix(q, Len(p)) = p

IsStrictPrefix(p, q) == Len(p) < Len(q) /\ Prefix(q, Len(p)) = p

SeqToSet(s) == {s[k] : k \in 1..Len(s)}

RECURSIVE Flatten(_)
Flatten(ss) == IF ss = <<>> THEN <<>> ELSE Head(ss) \o Flatten(Tail(ss))

\* 'a/b/c' from <<a, b, c>>
RECURSIVE JoinSlash(_)
JoinSlash(segs) ==
  IF segs = <<>> THEN <<>>
  ELSE IF Len(segs) = 1 THEN <<segs[1]>>
  ELSE <<segs[1], "/">> \o JoinSlash(Tail(segs))

\* String.prototype.split on a set of separator tokens: the pieces between
\* separators, empty pieces included ('a\n'.split gives ['a', '']).
RECURSIVE SplitOn(_, _, _)
SplitOn(text, seps, cur) ==
  IF text = <<>> THEN <<cur>>
  ELSE IF Head(text) \in seps THEN <<cur>> \o SplitOn(Tail(text), seps, <<>>)
  ELSE SplitOn(Tail(text), seps, Append(cur, Head(text)))

StartsWith(line, tok) == line # <<>> /\ Head(line) = tok

\* ------------------------------------------- the ignore library (node-ignore)

\* Tokens with a meaning for the code or the library; any other token is a
\* literal segment name.
Special == {"#", "!", "/", "*", "**", ".", "\n", "\r"}

\* checkPattern: a pattern is kept when it is a non-empty string that does
\* not start with '#'.
checkPattern(pattern) == pattern # <<>> /\ ~StartsWith(pattern, "#")

\* createRule: a leading '!' makes the rule negative and is removed.
createRule(pattern) ==
  IF StartsWith(pattern, "!")
  THEN [negative |-> TRUE, pattern |-> Tail(pattern)]
  ELSE [negative |-> FALSE, pattern |-> pattern]

\* Ignore.add: every pattern that passes checkPattern becomes a rule, in order.
RECURSIVE IgAdd(_, _)
IgAdd(rules, patterns) ==
  IF patterns = <<>> THEN rules
  ELSE IgAdd(IF checkPattern(Head(patterns))
             THEN Append(rules, createRule(Head(patterns)))
             ELSE rules,
             Tail(patterns))

\* The "starting" replacer: a pattern with a slash at its beginning or middle
\* is anchored ('^'); otherwise it may match at any level ('(?:^|\/)').
Anchored(pattern) == \E k \in 1..(Len(pattern) - 1) : pattern[k] = "/"

\* The "ending" replacer: a pattern that ends with a slash matches only a
\* path that ends with a slash.
DirOnly(pattern) == pattern # <<>> /\ Last(pattern) = "/"

\* The segments of a pattern, without its leading and trailing slash.
PatternSegs(pattern) ==
  LET p1 == IF StartsWith(pattern, "/") THEN Tail(pattern) ELSE pattern
      p2 == IF p1 # <<>> /\ Last(p1) = "/" THEN Front(p1) ELSE p1
  IN  IF p2 = <<>> THEN <<>> ELSE SplitOn(p2, {"/"}, <<>>)

\* One pattern segment against one path segment: '*' is [^/]*, a literal
\* segment matches the equal name.
SegMatch(pseg, name) ==
  \/ pseg = <<"*">>
  \/ pseg = <<"**">>
  \/ Len(pseg) = 1 /\ pseg[1] \notin Special /\ pseg[1] = name

\* The anchored regular expression against the segments of a path.  A '/**'
\* at the end is '\/.+' (one segment or more), a globstar elsewhere stands
\* for zero or more directories.
RECURSIVE MatchSegs(_, _)
MatchSegs(psegs, segs) ==
  IF psegs = <<>> THEN segs = <<>>
  ELSE IF Head(psegs) = <<"**">> /\ Len(psegs) = 1 THEN Len(segs) >= 1
  ELSE IF Head(psegs) = <<"**">>
       THEN \E k \in 0..Len(segs) :
              MatchSegs(Tail(psegs), SubSeq(segs, k + 1, Len(segs)))
  ELSE /\ segs # <<>>
       /\ SegMatch(Head(psegs), Head(segs))
       /\ MatchSegs(Tail(psegs), Tail(segs))

\* rule.regex.test(path) for the path with these segments, with a trailing
\* slash or without.  Every regular expression ends in '$' or '(?=$|\/$)', so
\* a match always reaches the end of the path.
RegexTest(rule, segs, slash) ==
  LET psegs == PatternSegs(rule.pattern)
  IN  /\ psegs # <<>>
      /\ segs # <<>>
      /\ DirOnly(rule.pattern) => slash
      /\ IF Anchored(rule.pattern)
         THEN MatchSegs(psegs, segs)
         ELSE Len(psegs) = 1 /\ SegMatch(psegs[1], Last(segs))

\* _testOne: the rules in order; a matching rule sets ignored to the
\* opposite of its sign.  A rule that cannot change the outcome is skipped.
RECURSIVE TestOneFrom(_, _, _, _, _)
TestOneFrom(rules, k, segs, slash, acc) ==
  IF k > Len(rules) THEN acc
  ELSE LET rule == rules[k]
           skip == \/ (acc.unignored = rule.negative /\ acc.ignored # acc.unignored)
                   \/ (rule.negative /\ ~acc.ignored /\ ~acc.unignored)
           next == IF ~skip /\ RegexTest(rule, segs, slash)
                   THEN [ignored |-> ~rule.negative, unignored |-> rule.negative]
                   ELSE acc
       IN  TestOneFrom(rules, k + 1, segs, slash, next)

\* Faulty variant of TestOne: negative rules are not applied.
TestOneWithoutNegation(rules, segs, slash) ==
  TestOneFrom(SelectSeq(rules, LAMBDA r : ~r.negative), 1, segs, slash,
              [ignored |-> FALSE, unignored |-> FALSE])

TestOne(rules, segs, slash) ==
  TestOneFrom(rules, 1, segs, slash, [ignored |-> FALSE, unignored |-> FALSE])

\* _t and ignores: a path is ignored when one of its parent directories is
\* (tested with a trailing slash, outermost first), otherwise by _testOne.
Ignores(rules, segs, slash) ==
  \/ \E k \in 1..(Len(segs) - 1) : TestOne(rules, Prefix(segs, k), TRUE).ignored
  \/ TestOne(rules, segs, slash).ignored

\* ------------------------------------------------------- the file system

RuleFile == ".gitignore"

\* The paths a file system under the root is made of.
Universe ==
  { <<RuleFile>>, <<"x">>, <<"build-utils.ts">>,
    <<"build">>, <<"build", "x">>,
    <<"node_modules">>, <<"node_modules", "x">>,
    <<"d">>, <<"d", RuleFile>>, <<"d", "x">>,
    <<"p">>, <<"p", "build-utils.ts">>,
    <<"p", "node_modules">>, <<"p", "node_modules", "x">>,
    <<"p", "d">>, <<"p", "d", "x">> }

\* Names whose entries are regular files when they have no children.
FileNames == {RuleFile, "x", "build-utils.ts", "main.js"}

\* The order of the names in a directory listing (reversed when descending).
NameOrder ==
  <<RuleFile, "build", "build-utils.ts", "d", "loop", "main.js", "node_modules", "p", "x">>

\* Root directories: '/p' (an absolute BASE_PATH) and '.' (a relative one).
Roots == { [abs |-> TRUE, segs |-> <<"p">>], [abs |-> FALSE, segs |-> <<>>] }

\* Contents of the rule file at the root, and of a nested rule file.
RootTexts ==
  { <<"build", "/", "\n">>,
    <<"*", "\n", "!", "x", "\n">>,
    <<"x", "\n", "!", "x">> }

NestedTexts == { <<"x", "\n">> }

\* The entries whose metadata may be unreadable.
Deniable == { <<"x">>, <<"d">>, <<"d", "x">> }

\* The file systems with at most n entries: every entry but a top-level one
\* lies in a directory of the file system.
RECURSIVE TreesIn(_, _)
TreesIn(universe, n) ==
  IF n = 0 THEN {{}}
  ELSE LET prev == TreesIn(universe, n - 1)
       IN  prev \cup UNION { { t \cup {q} :
                                 q \in {u \in universe : Len(u) = 1 \/ Front(u) \in t} } :
                               t \in prev }

TreesOf(n) == TreesIn(Universe, n)

HasChildren(dir) == \E q \in tree : Len(q) = Len(dir) + 1 /\ Front(q) = dir

\* An entry with this name is a symbolic link to the directory that holds it.
LinkName == "loop"

\* The entry a path leads to once its symbolic links are followed.
Real(path) == SelectSeq(path, LAMBDA s : s # LinkName)

\* The number of symbolic links the system follows to resolve a path.
LinksIn(path) == Len(path) - Len(Real(path))

\* stat(path).isDirectory() and stat(path).isFile(): stat follows symbolic
\* links.
IsDirectory(path) ==
  IF path # <<>> /\ Last(path) = LinkName
  THEN Append(Real(path), LinkName) \in tree
  ELSE /\ Real(path) \in tree
       /\ \/ HasChildren(Real(path))
          \/ Last(path) \notin FileNames /\ ~(Last(path) = "build" /\ buildIsFile)

IsFile(path) == Real(path) \in tree /\ ~IsDirectory(path)

\* fs.promises.readdir: the names of the entries of a directory.
RECURSIVE NamesIn(_, _)
NamesIn(dir, order) ==
  IF order = <<>> THEN <<>>
  ELSE (IF Append(Real(dir), Head(order)) \in tree THEN <<Head(order)>> ELSE <<>>)
       \o NamesIn(dir, Tail(order))

Reverse(s) == [k \in 1..Len(s) |-> s[Len(s) + 1 - k]]

Readdir(dir) == NamesIn(dir, IF descending THEN Reverse(NameOrder) ELSE NameOrder)

\* fs.readFileSync / fs.promises.readFile of a rule file
ReadFile(path) == IF path = <<RuleFile>> THEN rootText ELSE nestedText

\* ------------------------------------------------ getFileList (file-utils)

Inv == {1, 2}

NoError == "none"

\* Faulty variant of IgInstance: one ignore instance for all invocations.
IgInstanceShared(i) == 1

\* ig = ignore(): the default parameter makes a new instance for every
\* top-level call; the instance of invocation i is ig[IgInstance(i)].
IgInstance(i) == i

\* ig.add(['.git/**', 'node_modules/**'])
PermanentPatterns == << <<".git", "/", "**">>, <<"node_modules", "/", "**">> >>

\* line.startsWith('/') ? line.slice(1) : line
StripLeadingSlash(line) == IF StartsWith(line, "/") THEN Tail(line) ELSE line

\* gitignoreContent.split(/\n|\r/).filter(line => !line.startsWith('#'))
RuleLines(text) ==
  SelectSeq(SplitOn(text, {"\n", "\r"}, <<>>), LAMBDA line : ~StartsWith(line, "#"))

\* The patterns added for the rule file at the root.
RootPatterns(text) ==
  LET lines == RuleLines(text)
  IN  [k \in 1..Len(lines) |-> StripLeadingSlash(lines[k])]

\* path.dirname(fullPath) for an entry of the directory dir, as the string
\* path.join built it from originalRoot.
Dirname(dir) ==
  LET full == root.segs \o dir
  IN  IF root.abs THEN <<"/">> \o JoinSlash(full)
      ELSE IF full = <<>> THEN <<".">>
      ELSE JoinSlash(full)

\* The patterns added for a rule file met in the loop, in directory dir:
\* path.dirname(fullPath) + '/' + line (without its leading slash).
NestedPatterns(dir, text) ==
  LET lines == RuleLines(text)
  IN  [k \in 1..Len(lines) |-> Dirname(dir) \o <<"/">> \o StripLeadingSlash(lines[k])]

\* Faulty variant of Excluded: only the path without a trailing slash is tested.
ExcludedPathOnly(rules, rel) == Ignores(rules, rel, FALSE)

\* ig.ignores(fullRelativePath) || ig.ignores(fullRelativePath + '/')
Excluded(rules, rel) == Ignores(rules, rel, FALSE) \/ Ignores(rules, rel, TRUE)

\* fullPath.endsWith('.gitignore')
IsRuleFile(rel) == Last(rel) = RuleFile

Top(i) == stack[i][Len(stack[i])]

SetTop(i, f) == [stack EXCEPT ![i] = [@ EXCEPT ![Len(@)] = f]]

\* The locals of a getFileList call; paths are relative to BASE_PATH.
NewFrame(dir, originalRoot) ==
  [directory |-> dir, originalRoot |-> originalRoot,
   files |-> <<>>, fileList |-> <<>>, pc |-> "readdir"]

Rules(i) == ig[IgInstance(i)]

\* Faulty variant of Throw: the error is caught and the files found so far are
\* returned.
ThrowCaught(i, code) ==
  /\ st' = [st EXCEPT ![i] = "done"]
  /\ ret' = [ret EXCEPT ![i] =
               Flatten([k \in 1..Len(stack[i]) |-> stack[i][k].fileList])]
  /\ stack' = [stack EXCEPT ![i] = <<>>]
  /\ UNCHANGED <<ig, err>>

\* A rejected promise unwinds every pending getFileList call of the invocation.
Throw(i, code) ==
  /\ st' = [st EXCEPT ![i] = "failed"]
  /\ err' = [err EXCEPT ![i] = code]
  /\ stack' = [stack EXCEPT ![i] = <<>>]
  /\ UNCHANGED <<ig, ret>>

\* getFileList(BASE_PATH) is called.
Call(i) ==
  /\ st[i] = "idle"
  /\ st' = [st EXCEPT ![i] = "running"]
  /\ stack' = [stack EXCEPT ![i] = <<NewFrame(<<>>, <<>>)>>]
  /\ ig' = [ig EXCEPT ![IgInstance(i)] = <<>>]
  /\ UNCHANGED <<fsVars, ret, err, readdirLog, statLog, pruned>>

\* getFileOrFolderContent: isDirectory(filePath) holds and getFileList(filePath)
\* is called, with the directory of the request as originalRoot.
CallDirectory(i) ==
  /\ st[i] = "idle"
  /\ request.kind = "getFileOrFolderContent"
  /\ IsDirectory(request.fileName) /\ request.fileName \notin denied
  /\ st' = [st EXCEPT ![i] = "running"]
  /\ stack' = [stack EXCEPT ![i] = <<NewFrame(request.fileName, request.fileName)>>]
  /\ ig' = [ig EXCEPT ![IgInstance(i)] = <<>>]
  /\ UNCHANGED <<fsVars, ret, err, readdirLog, statLog, pruned>>

\* await fs.promises.readdir(directory) rejects: the root does not exist.
ReaddirThrow(i) ==
  /\ st[i] = "running" /\ Top(i).pc = "readdir"
  /\ Top(i).directory = <<>> /\ ~rootExists
  /\ Throw(i, "ENOENT")
  /\ UNCHANGED <<fsVars, readdirLog, statLog, pruned>>

\* await fs.promises.readdir(directory) resolves; in the root call the two
\* permanent rules are added and the root rule file is looked for.
ReaddirStep(i) ==
  /\ st[i] = "running" /\ Top(i).pc = "readdir"
  /\ Top(i).directory = <<>> => rootExists
  /\ LET dir == Top(i).directory
         isRoot == dir = Top(i).originalRoot
     IN  /\ stack' = SetTop(i, [Top(i) EXCEPT
                        !.files = Readdir(dir),
                        !.pc = IF isRoot /\ Append(dir, RuleFile) \in tree
                               THEN "rootrules" ELSE "loop"])
         /\ ig' = IF isRoot
                  THEN [ig EXCEPT ![IgInstance(i)] = IgAdd(Rules(i), PermanentPatterns)]
                  ELSE ig
         /\ readdirLog' = [readdirLog EXCEPT ![i] = @ \cup {dir}]
  /\ UNCHANGED <<fsVars, st, ret, err, statLog, pruned>>

\* await fs.promises.readFile(gitignorePath) resolves: its lines are added.
ReadRootRules(i) ==
  /\ st[i] = "running" /\ Top(i).pc = "rootrules"
  /\ ig' = [ig EXCEPT ![IgInstance(i)] =
              IgAdd(Rules(i), RootPatterns(ReadFile(Append(Top(i).directory, RuleFile))))]
  /\ stack' = SetTop(i, [Top(i) EXCEPT !.pc = "loop"])
  /\ UNCHANGED <<fsVars, st, ret, err, readdirLog, statLog, pruned>>

InLoop(i) == st[i] = "running" /\ Top(i).pc = "loop" /\ Top(i).files # <<>>

Entry(i) == Append(Top(i).directory, Head(Top(i).files))

\* path.relative(originalRoot, fullPath)
Relative(i) == SubSeq(Entry(i), Len(Top(i).originalRoot) + 1, Len(Entry(i)))

\* The entry is ignored: continue.
Skip(i) ==
  /\ InLoop(i)
  /\ Excluded(Rules(i), Relative(i))
  /\ stack' = SetTop(i, [Top(i) EXCEPT !.files = Tail(@)])
  /\ pruned' = [pruned EXCEPT ![i] = @ \cup {Entry(i)}]
  /\ UNCHANGED <<fsVars, st, ig, ret, err, readdirLog, statLog>>

\* await fs.promises.stat(fullPath) rejects: the metadata cannot be read, or
\* the path holds more symbolic links than the system follows.
StatThrow(i) ==
  /\ InLoop(i)
  /\ ~Excluded(Rules(i), Relative(i))
  /\ Entry(i) \in denied \/ LinksIn(Entry(i)) > MaxLinks
  /\ statLog' = [statLog EXCEPT ![i] = @ \cup {Entry(i)}]
  /\ Throw(i, IF Entry(i) \in denied THEN "EACCES" ELSE "ELOOP")
  /\ UNCHANGED <<fsVars, readdirLog, pruned>>

\* stat.isDirectory(): recurse with the same originalRoot and ig.
StatDirectory(i) ==
  /\ InLoop(i)
  /\ ~Excluded(Rules(i), Relative(i))
  /\ Entry(i) \notin denied /\ LinksIn(Entry(i)) <= MaxLinks
  /\ IsDirectory(Entry(i))
  /\ statLog' = [statLog EXCEPT ![i] = @ \cup {Entry(i)}]
  /\ stack' = [stack EXCEPT ![i] =
                 Append([@ EXCEPT ![Len(@)] = [Top(i) EXCEPT !.files = Tail(@)]],
                        NewFrame(Entry(i), Top(i).originalRoot))]
  /\ UNCHANGED <<fsVars, st, ig, ret, err, readdirLog, pruned>>

\* stat.isFile(): a rule file adds its lines to ig; the file is pushed.
StatFile(i) ==
  /\ InLoop(i)
  /\ ~Excluded(Rules(i), Relative(i))
  /\ Entry(i) \notin denied /\ LinksIn(Entry(i)) <= MaxLinks
  /\ IsFile(Entry(i))
  /\ statLog' = [statLog EXCEPT ![i] = @ \cup {Entry(i)}]
  /\ ig' = IF IsRuleFile(Entry(i))
           THEN [ig EXCEPT ![IgInstance(i)] =
                   IgAdd(Rules(i), NestedPatterns(Top(i).directory, ReadFile(Entry(i))))]
           ELSE ig
  /\ stack' = SetTop(i, [Top(i) EXCEPT !.files = Tail(@),
                                        !.fileList = Append(@, Entry(i))])
  /\ UNCHANGED <<fsVars, st, ret, err, readdirLog, pruned>>

\* Faulty variant of Return: the caller puts the list of the subdirectory in
\* front of its own.
ReturnInFront(i) ==
  /\ st[i] = "running" /\ Top(i).pc = "loop" /\ Top(i).files = <<>>
  /\ IF Len(stack[i]) = 1
     THEN /\ st' = [st EXCEPT ![i] = "done"]
          /\ ret' = [ret EXCEPT ![i] = Top(i).fileList]
          /\ stack' = [stack EXCEPT ![i] = <<>>]
     ELSE /\ stack' = [stack EXCEPT ![i] =
                         LET rest == Front(@)
                         IN  [rest EXCEPT ![Len(rest)] =
                                [@ EXCEPT !.fileList = Top(i).fileList \o @]]]
          /\ UNCHANGED <<st, ret>>
  /\ UNCHANGED <<fsVars, ig, err, readdirLog, statLog, pruned>>

\* return fileList: the caller pushes the list onto its own, the root call
\* resolves the promise of the invocation.
Return(i) ==
  /\ st[i] = "running" /\ Top(i).pc = "loop" /\ Top(i).files = <<>>
  /\ IF Len(stack[i]) = 1
     THEN /\ st' = [st EXCEPT ![i] = "done"]
          /\ ret' = [ret EXCEPT ![i] = Top(i).fileList]
          /\ stack' = [stack EXCEPT ![i] = <<>>]
     ELSE /\ stack' = [stack EXCEPT ![i] =
                         LET rest == Front(@)
                         IN  [rest EXCEPT ![Len(rest)] =
                                [@ EXCEPT !.fileList = @ \o Top(i).fileList]]]
          /\ UNCHANGED <<st, ret>>
  /\ UNCHANGED <<fsVars, ig, err, readdirLog, statLog, pruned>>

\* The steps of an invocation after its call.
StepAfterCall(i) ==
  \/ ReaddirThrow(i)
  \/ ReaddirStep(i)
  \/ ReadRootRules(i)
  \/ Skip(i)
  \/ StatThrow(i)
  \/ StatDirectory(i)
  \/ StatFile(i)
  \/ Return(i)

Step(i) == Call(i) \/ StepAfterCall(i)

\* ------------------------------------ findFunctionsInFile (function-utils)

NoId == "null"

\* A declarator of a variable declaration or a member of a class body.
Part(type, keyType, name, computed, initType, from, to) ==
  [type |-> type, keyType |-> keyType, name |-> name, computed |-> computed,
   initType |-> initType, range |-> <<from, to>>]

\* A statement; inner is the type of the declaration of an export (name is
\* then the identifier of that declaration) or of a function declared inside
\* the statement, and "none" when there is none.
Node(type, name, parts, inner, wide) ==
  [type |-> type, name |-> name, parts |-> parts, inner |-> inner,
   range |-> <<0, wide>>]

ArrowDeclarator == Part("VariableDeclarator", "Identifier", "bar", FALSE, "ArrowFunctionExpression", 6, 15)
FunctionDeclarator == Part("VariableDeclarator", "Identifier", "baz", FALSE, "FunctionExpression", 17, 35)
LiteralDeclarator == Part("VariableDeclarator", "Identifier", "one", FALSE, "Literal", 6, 11)
PatternDeclarator == Part("VariableDeclarator", "ObjectPattern", "pat", FALSE, "ArrowFunctionExpression", 6, 17)
PlainMethod == Part("MethodDefinition", "Identifier", "run", FALSE, "FunctionExpression", 10, 17)
ComputedIdMethod == Part("MethodDefinition", "Identifier", "key", TRUE, "FunctionExpression", 18, 27)
ComputedLiteralMethod == Part("MethodDefinition", "Literal", "lit", TRUE, "FunctionExpression", 18, 29)
ArrowProperty == Part("PropertyDefinition", "Identifier", "prop", FALSE, "ArrowFunctionExpression", 18, 30)

\* The statements the parser gives for the source shapes of interest, with
\* ranges relative to the start of the statement.
Statements ==
  { Node("FunctionDeclaration", "foo", <<>>, "none", 24),
    Node("FunctionDeclaration", "outer", <<>>, "FunctionDeclaration", 40),
    Node("VariableDeclaration", NoId, <<ArrowDeclarator>>, "none", 15),
    Node("VariableDeclaration", NoId, <<ArrowDeclarator, FunctionDeclarator>>, "none", 35),
    Node("VariableDeclaration", NoId, <<LiteralDeclarator>>, "none", 11),
    Node("VariableDeclaration", NoId, <<PatternDeclarator>>, "none", 17),
    Node("ClassDeclaration", "Cls", <<PlainMethod>>, "none", 19),
    Node("ClassDeclaration", "Cls", <<PlainMethod, ComputedIdMethod>>, "none", 29),
    Node("ClassDeclaration", "Cls", <<PlainMethod, ComputedLiteralMethod>>, "none", 31),
    Node("ClassDeclaration", "Cls", <<PlainMethod, ArrowProperty>>, "none", 32),
    Node("ExportNamedDeclaration", "exp", <<>>, "FunctionDeclaration", 31),
    Node("ExportNamedDeclaration", NoId, <<ArrowDeclarator>>, "VariableDeclaration", 22),
    Node("ExportNamedDeclaration", NoId, <<>>, "none", 12),
    Node("ExportDefaultDeclaration", "dflt", <<>>, "FunctionDeclaration", 33),
    Node("BlockStatement", NoId, <<>>, "FunctionDeclaration", 28),
    Node("ExpressionStatement", NoId, <<>>, "none", 9) }

Shift(range, by) == <<range[1] + by, range[2] + by>>

\* A statement placed at an offset of the source.
Place(node, at) ==
  [node EXCEPT !.range = Shift(@, at),
               !.parts = [k \in 1..Len(@) |-> [@[k] EXCEPT !.range = Shift(@, at)]]]

\* parse(content, {range: true}).body for the statements written one per line.
RECURSIVE Layout(_, _)
Layout(nodes, at) ==
  IF nodes = <<>> THEN <<>>
  ELSE <<Place(Head(nodes), at)>>
       \o Layout(Tail(nodes), at + Head(nodes).range[2] + 1)

Programs == UNION { [1..n -> Statements] : n \in 0..MaxStatements }

\* Faulty variant of Symbol: the range ends one character early.
SymbolCutShort(name, range) == [name |-> name, start |-> range[1], end |-> range[2] - 1]

Symbol(name, range) == [name |-> name, start |-> range[1], end |-> range[2]]

\* functionNode.id?.name || 'anonymous'
NameOrAnonymous(name) == IF name = NoId THEN "anonymous" ELSE name

\* The symbols one loop iteration of findFunctionsInFile pushes for a node of
\* ast.body, in the order of its four if statements.
SymbolsOf(node) ==
  (IF node.type = "FunctionDeclaration"
   THEN <<Symbol(NameOrAnonymous(node.name), node.range)>> ELSE <<>>)
  \o
  (IF node.type = "VariableDeclaration"
   THEN LET found == SelectSeq(node.parts, LAMBDA d :
                       /\ d.initType \in {"FunctionExpression", "ArrowFunctionExpression"}
                       /\ d.keyType = "Identifier")
        IN  [k \in 1..Len(found) |-> Symbol(found[k].name, node.range)]
   ELSE <<>>)
  \o
  (IF node.type = "ClassDeclaration"
   THEN LET found == SelectSeq(node.parts, LAMBDA m :
                       m.type = "MethodDefinition" /\ m.keyType = "Identifier")
        IN  [k \in 1..Len(found) |-> Symbol(found[k].name, found[k].range)]
   ELSE <<>>)
  \o
  (IF node.type = "ExportNamedDeclaration" /\ node.inner = "FunctionDeclaration"
   THEN <<Symbol(NameOrAnonymous(node.name), node.range)>> ELSE <<>>)

\* One iteration of: for (const functionNode of ast.body)
ScanNode ==
  /\ cursor <= Len(ast)
  /\ functions' = functions \o SymbolsOf(ast[cursor])
  /\ cursor' = cursor + 1
  /\ UNCHANGED <<ast, fileContent, unparsable, functionName, functionCode, res, thrown>>
  /\ UNCHANGED <<fsVars, runVars, minVars, listVars, httpVars, cmdVars>>

Scanned == cursor > Len(ast)

\* --------------------------------------------------- the text of a source

Terminators == {"\n", "\r"}

Wide(node) == node.range[2] - node.range[1]

\* The text of each statement of Statements, as written in a source file.
Written(node) ==
  CASE
    (node.type = "FunctionDeclaration" /\ Wide(node) = 24) ->
      <<"f","u","n","c","t","i","o","n"," ","f","o","o","(",")","{","r","e","t",
            "u","r","n"," ","1","}">>
    []
    (node.type = "FunctionDeclaration" /\ Wide(node) = 40) ->
      <<"f","u","n","c","t","i","o","n"," ","o","u","t","e","r","(",")","{",
            "\n"," "," ","f","u","n","c","t","i","o","n"," ","i","n","n","e",
            "r","(",")","{","}","\n","}">>
    []
    (node.type = "VariableDeclaration" /\ Wide(node) = 15) ->
      <<"c","o","n","s","t"," ","b","a","r","=","(",")","=",">","2">>
    []
    (node.type = "VariableDeclaration" /\ Wide(node) = 35) ->
      <<"c","o","n","s","t"," ","b","a","r","=","(",")","=",">","2",","," ","b",
            "a","z","=","f","u","n","c","t","i","o","n"," ","(",")","{"," ",
            "}">>
    []
    (node.type = "VariableDeclaration" /\ Wide(node) = 11) ->
      <<"c","o","n","s","t"," ","o","n","e","=","1">>
    []
    (node.type = "VariableDeclaration" /\ Wide(node) = 17) ->
      <<"c","o","n","s","t"," ","{","p","a","t","}","=","(",")","=",">","2">>
    []
    (node.type = "ClassDeclaration" /\ Wide(node) = 19) ->
      <<"c","l","a","s","s"," ","C","l","s","{","r","u","n","(",")","{","}"," ",
            "}">>
    []
    (node.type = "ClassDeclaration" /\ Wide(node) = 29) ->
      <<"c","l","a","s","s"," ","C","l","s","{","r","u","n","(",")","{","}"," ",
            "[","k","e","y","]","(",")","{","}"," ","}">>
    []
    (node.type = "ClassDeclaration" /\ Wide(node) = 31) ->
      <<"c","l","a","s","s"," ","C","l","s","{","r","u","n","(",")","{","}"," ",
            "[","'","l","i","t","'","]","(",")","{","}"," ","}">>
    []
    (node.type = "ClassDeclaration" /\ Wide(node) = 32) ->
      <<"c","l","a","s","s"," ","C","l","s","{","r","u","n","(",")","{","}"," ",
            "p","r","o","p","=","(",")","=",">","{","}",";"," ","}">>
    []
    (node.type = "ExportNamedDeclaration" /\ Wide(node) = 31) ->
      <<"e","x","p","o","r","t"," ","f","u","n","c","t","i","o","n"," ","e","x",
            "p","(",")","{","r","e","t","u","r","n"," ","1","}">>
    []
    (node.type = "ExportNamedDeclaration" /\ Wide(node) = 22) ->
      <<"e","x","p","o","r","t"," ","c","o","n","s","t"," ","b","a","r","=","(",
            ")","=",">","2">>
    []
    (node.type = "ExportNamedDeclaration" /\ Wide(node) = 12) ->
      <<"e","x","p","o","r","t"," ","{","f","o","o","}">>
    []
    (node.type = "ExportDefaultDeclaration" /\ Wide(node) = 33) ->
      <<"e","x","p","o","r","t"," ","d","e","f","a","u","l","t"," ","f","u","n",
            "c","t","i","o","n"," ","d","f","l","t","(",")"," ","{","}">>
    []
    (node.type = "BlockStatement" /\ Wide(node) = 28) ->
      <<"{","f","u","n","c","t","i","o","n"," ","i","n","n","e","r","(",")","{",
            "r","e","t","u","r","n"," ","1","}","}">>
    []
    (node.type = "ExpressionStatement" /\ Wide(node) = 9) ->
      <<"f","o","o","(","1",",","2",")",";">>

\* The text of a class member, as written in the class body.
WrittenMember(part) ==
  CASE part.name = "run" -> <<"r","u","n","(",")","{","}">>
    [] part.name = "key" -> <<"[","k","e","y","]","(",")","{","}">>
    [] part.name = "lit" -> <<"[","'","l","i","t","'","]","(",")","{","}">>
    [] part.name = "prop" -> <<"p","r","o","p","=","(",")","=",">","{","}",";">>

\* The text of a program: its statements, each followed by a line feed.
RECURSIVE Source(_)
Source(program) ==
  IF program = <<>> THEN <<>>
  ELSE Written(Head(program)) \o <<"\n">> \o Source(Tail(program))

\* String.prototype.substring(from, to): both indices are clamped to the
\* length of the text and swapped when from is greater than to.
Clamp(k, len) == IF k < 0 THEN 0 ELSE IF k > len THEN len ELSE k

\* Faulty variant of Substring: the character at index to is included and
\* the one at index from is not.
SubstringShifted(text, from, to) == SubSeq(text, from + 2, to + 1)

Substring(text, from, to) ==
  LET a == Clamp(from, Len(text))
      b == Clamp(to, Len(text))
  IN  IF a <= b THEN SubSeq(text, a + 1, b) ELSE SubSeq(text, b + 1, a)

\* ----------------------------------------------- minimize (function-utils)

\* body.split(/(\n|\r)/): the pieces between the separators and, because of
\* the capturing group, the separators themselves.
RECURSIVE SplitCapture(_, _)
SplitCapture(text, cur) ==
  IF text = <<>> THEN <<cur>>
  ELSE IF Head(text) \in Terminators
       THEN <<cur, <<Head(text)>>>> \o SplitCapture(Tail(text), <<>>)
  ELSE SplitCapture(Tail(text), Append(cur, Head(text)))

MIN_LINES == 2

\* '\n// ...\n'
ElisionMarker == <<"\n", "/", "/", " ", ".", ".", ".", "\n">>

minimize(text) ==
  LET bodyLines == SplitCapture(text, <<>>)
  IN  IF Len(bodyLines) <= MIN_LINES THEN text
      ELSE bodyLines[1] \o ElisionMarker \o bodyLines[Len(bodyLines)]

\* The texts given to minimize: letters and line terminators.
Letters == {"a", "b"}

RECURSIVE TextsOf(_)
TextsOf(n) ==
  IF n = 0 THEN {<<>>}
  ELSE LET prev == TextsOf(n - 1)
       IN  prev \cup { Append(s, c) : s \in {u \in prev : Len(u) = n - 1},
                                      c \in Letters \cup Terminators }

\* minimize(body) is called and returns.
Minimize ==
  /\ minimal = <<>>
  /\ minimal' = <<minimize(body)>>
  /\ UNCHANGED <<body, fsVars, runVars, fnVars, listVars, httpVars, cmdVars>>

\* ------------------------------------- getFunctionData (function-utils)

\* No function name: the handler getFunctionContent was not called.
NoName == "none"

Undefined == [kind |-> "undefined"]

Pending == [kind |-> "pending"]

\* Faulty variant of extractFunctionRange: the last symbol with the name.
extractFunctionRangeLast(fns, name) ==
  LET found == SelectSeq(fns, LAMBDA func : func.name = name)
  IN  IF found = <<>> THEN Undefined
      ELSE [kind |-> "range", start |-> found[Len(found)].start,
            end |-> found[Len(found)].end]

\* functions.find(func => func.name === functionName) on the symbols that
\* findFunctionsInFile returned.
extractFunctionRange(fns, name) ==
  LET found == SelectSeq(fns, LAMBDA func : func.name = name)
  IN  IF found = <<>> THEN Undefined
      ELSE [kind |-> "range", start |-> Head(found).start, end |-> Head(found).end]

\* The value getFunctionData resolves to for the parsed file.
getFunctionData(name, text, fns) ==
  LET range == extractFunctionRange(fns, name)
  IN  IF range.kind = "range"
      THEN LET functionContent == Substring(text, range.start, range.end)
           IN  [kind |-> "data", functionName |-> name,
                minimal |-> minimize(functionContent), full |-> functionContent,
                startByte |-> range.start, endByte |-> range.end]
      ELSE Undefined

\* ------------------------------------------- the responses (index.ts)

NoResponse == [status |-> 0, error |-> "none"]

Json(status, error) == [status |-> status, error |-> error]

\* No error was thrown.
NoThrow == [name |-> "none", code |-> "none", validation |-> FALSE]

\* An error thrown by the parser: it has no code and no validationErrors.
SyntaxError == [name |-> "SyntaxError", code |-> "none", validation |-> FALSE]

\* An error thrown by the file system.
FsError(code) == [name |-> "Error", code |-> code, validation |-> FALSE]

\* Faulty variant of handleErrors: without the case of EACCES.
handleErrorsWithoutPermission(error) ==
  IF error.code = "ENOENT" THEN Json(404, "File not found")
  ELSE IF error.code = "ETIMEDOUT" THEN Json(500, "Response timed out")
  ELSE IF error.validation THEN Json(400, "Validation failed")
  ELSE Json(500, "Internal server error")

\* handleErrors of error-handler.ts
handleErrors(error) ==
  IF error.code = "ENOENT" THEN Json(404, "File not found")
  ELSE IF error.code = "EACCES" THEN Json(403, "Permission denied")
  ELSE IF error.code = "ETIMEDOUT" THEN Json(500, "Response timed out")
  ELSE IF error.validation THEN Json(400, "Validation failed")
  ELSE Json(500, "Internal server error")

\* Faulty variant of NotFound: the absence is passed to the error handler.
NotFoundAsError == handleErrors(SyntaxError)

\* res.status(404).json({ error: 'Function not found' })
NotFound == Json(404, "Function not found")

\* getFunctionContent: parse(fileContent) throws, the catch passes the error
\* to the error handler.
ParseThrow ==
  /\ functionName # NoName
  /\ unparsable /\ res = NoResponse
  /\ thrown' = SyntaxError
  /\ res' = handleErrors(SyntaxError)
  /\ UNCHANGED <<ast, cursor, functions, fileContent, unparsable, functionName, functionCode>>
  /\ UNCHANGED <<fsVars, runVars, minVars, listVars, httpVars, cmdVars>>

\* getFunctionContent after findFunctionsInFile returned: the lookup, the
\* slice and its minimal form, and the response.
GetFunctionContent ==
  /\ functionName # NoName
  /\ ~unparsable /\ Scanned /\ res = NoResponse
  /\ functionCode' = getFunctionData(functionName, fileContent, functions)
  /\ res' = IF functionCode'.kind = "undefined" THEN NotFound ELSE Json(200, "none")
  /\ UNCHANGED <<ast, cursor, functions, fileContent, unparsable, functionName, thrown>>
  /\ UNCHANGED <<fsVars, runVars, minVars, listVars, httpVars, cmdVars>>

\* ------------------------------------------------------- specifications

NeedsBuildKind(t) == \E q \in t : Last(q) = "build" /\ ~\E u \in t : IsStrictPrefix(q, u)

InitRun ==
  /\ st = [i \in Inv |-> "idle"]
  /\ stack = [i \in Inv |-> <<>>]
  /\ ig = [i \in Inv |-> <<>>]
  /\ ret = [i \in Inv |-> <<>>]
  /\ err = [i \in Inv |-> NoError]
  /\ readdirLog = [i \in Inv |-> {}]
  /\ statLog = [i \in Inv |-> {}]
  /\ pruned = [i \in Inv |-> {}]

InitFs(n, orders) ==
  /\ root \in Roots
  /\ rootExists \in BOOLEAN
  /\ tree \in (IF rootExists THEN TreesOf(n) ELSE {{}})
  /\ buildIsFile \in (IF NeedsBuildKind(tree) THEN BOOLEAN ELSE {FALSE})
  /\ denied \in {{}} \cup {{q} : q \in tree \cap Deniable}
  /\ rootText \in (IF <<RuleFile>> \in tree THEN RootTexts ELSE {<<>>})
  /\ nestedText \in (IF \E q \in tree : Len(q) > 1 /\ IsRuleFile(q)
                     THEN NestedTexts ELSE {<<>>})
  /\ descending \in orders

\* No program is being scanned.
InitNoRequest ==
  /\ fileContent = <<>> /\ unparsable = FALSE
  /\ functionName = NoName /\ functionCode = Pending /\ res = NoResponse
  /\ thrown = NoThrow

\* getFunctionList is not called.
InitNoList ==
  /\ request = [kind |-> "none", fileName |-> <<>>]
  /\ sources = <<>>
  /\ lpc = "start" /\ files = <<>> /\ functionList = <<>> /\ readLog = <<>>

InitNoMinimize == body = <<>> /\ minimal = <<>>

\* No request to a /files/* route is being handled.
InitNoHttp ==
  /\ disk = <<>> /\ original = <<>> /\ overwrite = "unset"
  /\ hreq = [method |-> "none"]
  /\ hpc = "done" /\ writes = <<>> /\ sent = <<>> /\ nexts = <<>> /\ accessLog = <<>>

\* runCommand is not called.
InitNoCommand == command = <<>> /\ strict = TRUE /\ spawned = <<>> /\ outcome = "none"

InitNoProgram ==
  /\ ast = <<>> /\ cursor = 1 /\ functions = <<>>
  /\ InitNoRequest /\ InitNoMinimize /\ InitNoList
  /\ InitNoHttp /\ InitNoCommand

Init == InitFs(MaxEntries, BOOLEAN) /\ InitRun /\ InitNoProgram

\* One request: a single invocation of getFileList.
Next == Step(1) /\ UNCHANGED <<fnVars, minVars, listVars, httpVars, cmdVars>>

Spec == Init /\ [][Next]_vars

\* Two requests in flight: their invocations interleave at every await.  The
\* directory listings are in ascending order, rule files first.
InitConcurrent == InitFs(MaxEntriesConcurrent, {FALSE}) /\ InitRun /\ InitNoProgram

NextConcurrent == (\E i \in Inv : Step(i)) /\ UNCHANGED <<fnVars, minVars, listVars, httpVars, cmdVars>>

SpecConcurrent == InitConcurrent /\ [][NextConcurrent]_vars

\* GET /files and GET /files/d for a directory d of the same file system:
\* invocation 1 lists the root, invocation 2 lists d.
InitSubdirectory ==
  /\ InitFs(MaxEntriesConcurrent, {FALSE}) /\ InitRun
  /\ ast = <<>> /\ cursor = 1 /\ functions = <<>>
  /\ InitNoRequest /\ InitNoMinimize /\ InitNoHttp /\ InitNoCommand
  /\ request \in {[kind |-> "getFiles", fileName |-> <<>>]}
                   \cup {[kind |-> "getFileOrFolderContent", fileName |-> d] :
                           d \in {q \in tree : IsDirectory(q)}}
  /\ sources = <<>>
  /\ lpc = "start" /\ files = <<>> /\ functionList = <<>> /\ readLog = <<>>

NextSubdirectory ==
  /\ \E i \in Inv :
       \/ i = 1 /\ Call(i)
       \/ i = 2 /\ CallDirectory(i)
       \/ StepAfterCall(i)
  /\ UNCHANGED <<fnVars, minVars, listVars, httpVars, cmdVars>>

SpecSubdirectory == InitSubdirectory /\ [][NextSubdirectory]_vars

\* The function names a client asks for.
RequestNames == {"foo", "bar", "baz", "run", "key", "exp", "inner", "nope"}

\* GET /files/:fileName/functions/:functionName for one file: parse,
\* findFunctionsInFile, lookup and response; no traversal runs.
InitNoFs ==
  /\ root = [abs |-> FALSE, segs |-> <<>>]
  /\ rootExists = FALSE
  /\ tree = {}
  /\ buildIsFile = FALSE
  /\ denied = {}
  /\ rootText = <<>>
  /\ nestedText = <<>>
  /\ descending = FALSE

InitFunctions ==
  /\ InitNoFs
  /\ InitRun
  /\ unparsable \in BOOLEAN
  /\ \E program \in Programs :
       /\ fileContent = Source(program) \o (IF unparsable THEN <<"}">> ELSE <<>>)
       /\ ast = IF unparsable THEN <<>> ELSE Layout(program, 0)
  /\ cursor = 1
  /\ functions = <<>>
  /\ functionName \in RequestNames
  /\ functionCode = Pending
  /\ res = NoResponse
  /\ thrown = NoThrow
  /\ InitNoMinimize /\ InitNoList /\ InitNoHttp /\ InitNoCommand

NextFunctions == ScanNode \/ ParseThrow \/ GetFunctionContent

SpecFunctions == InitFunctions /\ [][NextFunctions]_vars

\* minimize on a text of at most MaxChars characters.
InitMinimize ==
  /\ InitNoFs /\ InitRun
  /\ ast = <<>> /\ cursor = 1 /\ functions = <<>>
  /\ InitNoRequest /\ InitNoList /\ InitNoHttp /\ InitNoCommand
  /\ body \in TextsOf(MaxChars)
  /\ minimal = <<>>

NextMinimize == Minimize

SpecMinimize == InitMinimize /\ [][NextMinimize]_vars

\* ---------------------------------------------------------------- claims

Done(i) == st[i] = "done"

Failed(i) == st[i] = "failed"

\* The paths of the returned list (none before the promise resolves).
Result(i) == IF Done(i) THEN SeqToSet(ret[i]) ELSE {}

NoDuplicates(s) == \A a, b \in 1..Len(s) : a # b => s[a] # s[b]

\* The rule set in force during the whole loop of a traversal: the permanent
\* rules and the patterns of the rule file at the root.
RootRuleSet ==
  IgAdd(IgAdd(<<>>, PermanentPatterns),
        IF <<RuleFile>> \in tree THEN RootPatterns(rootText) ELSE <<>>)

\* Everything an invocation has read, listed or returned so far.
Visited(i) ==
  statLog[i] \cup readdirLog[i] \cup Result(i)
  \cup UNION { SeqToSet(stack[i][k].fileList) : k \in 1..Len(stack[i]) }

\* C1: the result holds each regular file that no rule in force matches
\* exactly once, and no directory, no file matched by a rule of the root rule
\* set, and no path twice.
C1_ListsUnmatchedFilesOnce ==
  Done(1) =>
    /\ NoDuplicates(ret[1])
    /\ \A f \in Result(1) : IsFile(f) /\ ~Ignores(RootRuleSet, f, FALSE)
    /\ \A f \in tree : IsFile(f) /\ ~Ignores(ig[1], f, FALSE) => f \in Result(1)

PermanentNames == {".git", "node_modules"}

\* C3: no returned path has a .git or node_modules directory segment, at any
\* depth and whatever the rule files say.
C3_NoPermanentSegmentReturned ==
  Done(1) =>
    \A f \in Result(1) : \A k \in 1..(Len(f) - 1) : f[k] \notin PermanentNames

\* The rules made of the lines of the rule file at the root.
RootFileRules ==
  IF <<RuleFile>> \in tree THEN IgAdd(<<>>, RootPatterns(rootText)) ELSE <<>>

\* The root rule file has an exclusion pattern that matches f and, on a later
\* line, a negation pattern that matches f.
NegatedAfterExcluded(f) ==
  \E a, b \in 1..Len(RootFileRules) :
    /\ a < b
    /\ ~RootFileRules[a].negative /\ RegexTest(RootFileRules[a], f, FALSE)
    /\ RootFileRules[b].negative /\ RegexTest(RootFileRules[b], f, FALSE)

\* C4 as claimed: a file excluded by a pattern of the root rule file and
\* negated on a later line is in the result.
C4_NegationReincludes ==
  Done(1) => \A f \in tree : IsFile(f) /\ NegatedAfterExcluded(f) => f \in Result(1)

\* The last rule of the rule set that matches f (with or without a trailing
\* slash) is a negation.
LastMatchIsNegation(rules, f) ==
  \E b \in 1..Len(rules) :
    /\ rules[b].negative /\ RegexTest(rules[b], f, FALSE)
    /\ \A c \in (b + 1)..Len(rules) :
         ~RegexTest(rules[c], f, FALSE) /\ ~RegexTest(rules[c], f, TRUE)

\* No parent directory of f is excluded by the rule set.
NoParentExcluded(rules, f) ==
  \A k \in 1..(Len(f) - 1) : ~Ignores(rules, Prefix(f, k), TRUE)

\* C4 amended: a file excluded by a pattern of the root rule file and negated
\* on a later line is in the result when that negation is the last rule
\* matching it and no parent directory of the file is excluded.
C4_NegationReincludesUnlessParentExcluded ==
  Done(1) =>
    \A f \in tree :
      /\ IsFile(f) /\ NegatedAfterExcluded(f)
      /\ LastMatchIsNegation(ig[1], f) /\ NoParentExcluded(ig[1], f)
      => f \in Result(1)

\* C4 witness: a finished traversal returned a file that an earlier line of
\* the root rule file excludes and a later line negates.
C4_Witness ==
  /\ Done(1)
  /\ \E f \in Result(1) :
       NegatedAfterExcluded(f) /\ LastMatchIsNegation(ig[1], f) /\ NoParentExcluded(ig[1], f)

BuildSlash == <<"build", "/", "\n">>

\* C5: with the pattern build/ in the root rule file no returned path lies
\* under a directory named build, and every file named build-utils.ts is
\* returned.
C5_BuildSlashPrunesOnlyBuildDirectories ==
  Done(1) /\ <<RuleFile>> \in tree /\ rootText = BuildSlash =>
    /\ \A f \in Result(1) : \A k \in 1..(Len(f) - 1) : f[k] # "build"
    /\ \A f \in tree : IsFile(f) /\ Last(f) = "build-utils.ts" => f \in Result(1)

\* ------------------------------------------ the traversal as one function

\* The list and the rule set that the loop of getFileList(dir) produces for
\* the names still to visit, started with the given rules and run without
\* interruption; rule files of nested directories are read when nested holds.
RECURSIVE WalkNames(_, _, _, _)
WalkNames(dir, names, rules, nested) ==
  IF names = <<>> THEN [fileList |-> <<>>, rules |-> rules]
  ELSE LET entry == Append(dir, Head(names))
       IN  IF Excluded(rules, entry)
           THEN WalkNames(dir, Tail(names), rules, nested)
           ELSE IF IsDirectory(entry)
           THEN LET sub == WalkNames(entry, Readdir(entry), rules, nested)
                    rest == WalkNames(dir, Tail(names), sub.rules, nested)
                IN  [fileList |-> sub.fileList \o rest.fileList, rules |-> rest.rules]
           ELSE LET added == IF IsRuleFile(entry) /\ (nested \/ dir = <<>>)
                             THEN IgAdd(rules, NestedPatterns(dir, ReadFile(entry)))
                             ELSE rules
                    rest == WalkNames(dir, Tail(names), added, nested)
                IN  [fileList |-> <<entry>> \o rest.fileList, rules |-> rest.rules]

\* getFileList(originalRoot) run alone.
WalkRoot(nested) == WalkNames(<<>>, Readdir(<<>>), RootRuleSet, nested).fileList

\* The nested directories that hold a rule file.
RuleDirs == { Front(g) : g \in {q \in tree : Len(q) > 1 /\ IsRuleFile(q) /\ IsFile(q)} }

OutsideRuleDirs(list) ==
  SelectSeq(list, LAMBDA f : \A d \in RuleDirs : ~IsPrefix(d, f))

\* C6: the files listed outside the nested directories that hold a rule file
\* are those listed when no nested rule file is read.
C6_NestedRulesDoNotLeak ==
  Done(1) => OutsideRuleDirs(ret[1]) = OutsideRuleDirs(WalkRoot(FALSE))

Index(list, f) == CHOOSE k \in 1..Len(list) : list[k] = f

\* The file f, below the directory of the nested rule file g, matches a
\* pattern of g taken relative to that directory.
MatchesPatternOf(g, f) ==
  LET d == Front(g)
      rules == IgAdd(<<>>, RootPatterns(ReadFile(g)))
  IN  /\ IsStrictPrefix(d, f)
      /\ \E k \in 1..Len(rules) :
           ~rules[k].negative
           /\ RegexTest(rules[k], SubSeq(f, Len(d) + 1, Len(f)), FALSE)

\* C7: an entry below a nested directory that matches a pattern of the rule
\* file of that directory and is visited after the rule file was read is not
\* in the result.
C7_NestedRulesApplyBelow ==
  Done(1) =>
    \A g, f \in Result(1) :
      Len(g) > 1 /\ IsRuleFile(g) /\ Index(ret[1], g) < Index(ret[1], f)
      => ~MatchesPatternOf(g, f)

\* C8: an invocation fails with ENOENT when the root does not exist and with
\* EACCES when it reaches an entry whose metadata cannot be read; a failed
\* invocation returns no list, and an invocation that returns a list has
\* reached no unreadable entry.
C8_ErrorsPropagate ==
  /\ ~rootExists => ~Done(1)
  /\ Done(1) => statLog[1] \cap denied = {} /\ err[1] = NoError
  /\ Failed(1) =>
       /\ ret[1] = <<>>
       /\ \/ err[1] = "ENOENT" /\ ~rootExists
          \/ err[1] = "EACCES" /\ statLog[1] \cap denied # {}

\* C8 witness: the traversal failed at an unreadable entry after it had
\* already visited another entry.
C8_Witness ==
  /\ Failed(1) /\ err[1] = "EACCES"
  /\ Cardinality(statLog[1]) >= 2

\* C9: every invocation that returns, returns the list and ends with the rule
\* set of the traversal run alone, however the invocations interleave.
C9_ConcurrentInvocationsIndependent ==
  \A i \in Inv :
    Done(i) =>
      /\ ret[i] = WalkRoot(TRUE)
      /\ ig[i] = WalkNames(<<>>, Readdir(<<>>), RootRuleSet, TRUE).rules

\* C9 witness: one invocation has returned with the rules of a nested rule
\* file in its rule set while the other is in its loop without them.
C9_Witness ==
  /\ Done(1) /\ st[2] = "running"
  /\ statLog[2] # {}
  /\ Len(ig[1]) > Len(ig[2])
  /\ RuleDirs # {}

\* The symbols that the four indexed shapes allow for a top-level statement:
\* a function declaration, the function-valued declarators of a variable
\* declaration that bind an identifier, the methods of a class whose key is
\* an identifier and is not computed, a named export of a function declaration.
AllowedSymbols(node) ==
  (IF node.type = "FunctionDeclaration"
   THEN {Symbol(NameOrAnonymous(node.name), node.range)} ELSE {})
  \cup
  (IF node.type = "VariableDeclaration"
   THEN { Symbol(d.name, node.range) :
            d \in { e \in SeqToSet(node.parts) :
                      /\ e.initType \in {"FunctionExpression", "ArrowFunctionExpression"}
                      /\ e.keyType = "Identifier" } }
   ELSE {})
  \cup
  (IF node.type = "ClassDeclaration"
   THEN { Symbol(m.name, m.range) :
            m \in { e \in SeqToSet(node.parts) :
                      /\ e.type = "MethodDefinition"
                      /\ e.keyType = "Identifier" /\ ~e.computed } }
   ELSE {})
  \cup
  (IF node.type = "ExportNamedDeclaration" /\ node.inner = "FunctionDeclaration"
   THEN {Symbol(NameOrAnonymous(node.name), node.range)} ELSE {})

\* C10: every symbol found comes from one of the four indexed shapes of a
\* top-level statement; nested functions, destructured bindings, computed
\* method keys and default exports give no symbol.
C10_OnlyIndexedShapesYieldSymbols ==
  Scanned =>
    SeqToSet(functions) \subseteq UNION { AllowedSymbols(ast[k]) : k \in 1..Len(ast) }

\* ------------------------------------------- claims on the symbol ranges

FunctionNode(node) ==
  \/ node.type = "FunctionDeclaration"
  \/ node.type = "ExportNamedDeclaration" /\ node.inner = "FunctionDeclaration"

FunctionValued(d) ==
  /\ d.initType \in {"FunctionExpression", "ArrowFunctionExpression"}
  /\ d.keyType = "Identifier"

\* The texts of the declarations of the program that declare the name: a
\* statement for a function, an exported function or a function-valued
\* variable, a member for a class method.
DeclaredTexts(name) ==
  { Written(ast[k]) :
      k \in { j \in 1..Len(ast) :
                \/ FunctionNode(ast[j]) /\ NameOrAnonymous(ast[j].name) = name
                \/ /\ ast[j].type = "VariableDeclaration"
                   /\ \E d \in SeqToSet(ast[j].parts) : FunctionValued(d) /\ d.name = name } }
  \cup
  UNION { { WrittenMember(m) : m \in { e \in SeqToSet(ast[k].parts) : e.name = name } } :
            k \in { j \in 1..Len(ast) : ast[j].type = "ClassDeclaration" } }

ExampleProgram ==
  << Node("FunctionDeclaration", "foo", <<>>, "none", 24),
     Node("VariableDeclaration", NoId, <<ArrowDeclarator>>, "none", 15) >>

\* C11: every symbol of a parsed source has 0 <= start < end <= length of the
\* source and the slice of the source at its range is the text of the
\* declaration it was matched from, as is the text getFunctionData returns;
\* the source of the example gives foo and bar with the two statements as
\* their slices.
C11_RangesSliceDeclarations ==
  Scanned /\ ~unparsable =>
    /\ \A k \in 1..Len(functions) :
         LET s == functions[k]
         IN  /\ 0 <= s.start /\ s.start < s.end /\ s.end <= Len(fileContent)
             /\ Substring(fileContent, s.start, s.end) \in DeclaredTexts(s.name)
    /\ functionCode.kind = "data" =>
         /\ functionCode.full \in DeclaredTexts(functionName)
         /\ functionCode.full = SubSeq(fileContent, functionCode.startByte + 1, functionCode.endByte)
    /\ fileContent = Source(ExampleProgram) =>
         /\ [k \in 1..Len(functions) |-> functions[k].name] = <<"foo", "bar">>
         /\ \A k \in 1..Len(functions) :
              Substring(fileContent, functions[k].start, functions[k].end)
                = Written(ExampleProgram[k])

\* C11 witness: the function bar of the example source has been returned.
C11_Witness ==
  /\ res.status = 200 /\ functionName = "bar"
  /\ fileContent = Source(ExampleProgram)
  /\ functionCode.full = Written(ExampleProgram[2])

Range(x) == <<x.start, x.end>>

ExportKeyword == <<"e", "x", "p", "o", "r", "t", " ">>

\* C12: the symbols of a function-valued variable all have the range of the
\* whole variable-declaration statement, the symbol of a class method has the
\* range of the member and not of the class, and the symbol of an exported
\* function has the range of the export statement, which starts with the
\* export keyword.
C12_RangeIsTheSpanOfTheShape ==
  Scanned /\ ~unparsable =>
    \A k \in 1..Len(ast) :
      LET node == ast[k]
          here == { s \in SeqToSet(functions) :
                      node.range[1] <= s.start /\ s.end <= node.range[2] }
      IN  /\ node.type = "VariableDeclaration" =>
                /\ \A s \in here : Range(s) = node.range
                /\ \A d \in SeqToSet(node.parts) :
                     FunctionValued(d) => Symbol(d.name, node.range) \in here
          /\ node.type = "ClassDeclaration" =>
                /\ \A s \in here :
                     /\ Range(s) # node.range
                     /\ \E m \in SeqToSet(node.parts) : m.name = s.name /\ Range(s) = m.range
                /\ \A m \in SeqToSet(node.parts) :
                     m.type = "MethodDefinition" /\ m.keyType = "Identifier"
                     => Symbol(m.name, m.range) \in here
          /\ node.type = "ExportNamedDeclaration" /\ node.inner = "FunctionDeclaration" =>
                /\ here = {Symbol(NameOrAnonymous(node.name), node.range)}
                /\ \A s \in here :
                     SubSeq(fileContent, s.start + 1, s.start + Len(ExportKeyword)) = ExportKeyword

\* C12 witness: a scanned program with a statement of two function-valued
\* declarators and a class with a method.
C12_Witness ==
  /\ Scanned /\ Len(ast) = 2
  /\ ast[1].type = "VariableDeclaration" /\ Len(ast[1].parts) = 2
  /\ ast[2].type = "ClassDeclaration"
  /\ Len(functions) = 3

SameName == SelectSeq(functions, LAMBDA s : s.name = functionName)

\* C13: when several symbols carry the requested name the returned range is
\* that of the first of them in source order, and of no later one.
C13_LookupReturnsFirstDeclared ==
  res.status = 200 =>
    /\ Range(Head(SameName)) = <<functionCode.startByte, functionCode.endByte>>
    /\ \A k \in 1..Len(SameName) : functionCode.startByte <= SameName[k].start
    /\ \A k \in 2..Len(SameName) :
         Range(SameName[k]) # Range(Head(SameName))
         => Range(SameName[k]) # <<functionCode.startByte, functionCode.endByte>>

\* C13 witness: a function was returned from a source in which a later
\* declaration carries the same name.
C13_Witness ==
  /\ res.status = 200
  /\ Len(SameName) = 2 /\ SameName[1].start < SameName[2].start

\* C14: for a name that no symbol of a parsable file carries, getFunctionData
\* resolves to undefined and the response is 404 "Function not found", not a
\* response of the error handler.
C14_AbsentNameIsNotFound ==
  ~unparsable /\ Scanned /\ SameName = <<>> /\ res # NoResponse =>
    /\ functionCode = Undefined
    /\ res = Json(404, "Function not found")
    /\ res # handleErrors(SyntaxError)

\* C14 witness: a name was looked up that no symbol of a program with
\* symbols carries.
C14_Witness ==
  /\ ~unparsable /\ functions # <<>> /\ SameName = <<>>
  /\ res.status = 404

\* --------------------------------------------------- claims on minimize

\* The lines of a text: a line ends at \n, \r or \r\n, and a terminator at
\* the end of the text ends the last line without starting another.
RECURSIVE LinesFrom(_, _)
LinesFrom(text, cur) ==
  IF text = <<>> THEN (IF cur = <<>> THEN <<>> ELSE <<cur>>)
  ELSE IF Len(text) >= 2 /\ text[1] = "\r" /\ text[2] = "\n"
       THEN <<cur>> \o LinesFrom(Tail(Tail(text)), <<>>)
  ELSE IF Head(text) \in Terminators
       THEN <<cur>> \o LinesFrom(Tail(text), <<>>)
  ELSE LinesFrom(Tail(text), Append(cur, Head(text)))

LinesOf(text) == LinesFrom(text, <<>>)

Minimized == minimal # <<>>

\* C16: minimize returns a text of at most two lines unchanged.
C16_AtMostTwoLinesUnchanged ==
  Minimized /\ Len(LinesOf(body)) <= 2 => minimal[1] = body

\* C17: for a text of more than two lines minimize returns three lines: the
\* first line of the text, the elision marker and the last line of the text.
C17_MoreThanTwoLinesGiveThree ==
  Minimized /\ Len(LinesOf(body)) > 2 =>
    LinesOf(minimal[1]) =
      << LinesOf(body)[1], <<"/", "/", " ", ".", ".", ".">>, LinesOf(body)[Len(LinesOf(body))] >>

\* ----------------------------------- getFunctionList (function-utils)

\* The paths a file system with source files is made of.
ListUniverse ==
  { <<RuleFile>>, <<"x">>, <<"build-utils.ts">>, <<"main.js">>,
    <<"d">>, <<"d", "main.js">>,
    <<"node_modules">>, <<"node_modules", "main.js">> }

\* The end of a file name that endsWith looks at.
Extension(name) ==
  CASE name = "build-utils.ts" -> ".ts"
    [] name = "main.js" -> ".js"
    [] OTHER -> ""

SourceFile(file) == Extension(Last(file)) \in {".ts", ".js"}

\* What a source file holds: text that does not parse, a program without
\* functions, or the example program.
FileSources ==
  { [unparsable |-> TRUE, program |-> <<>>],
    [unparsable |-> FALSE, program |-> <<>>],
    [unparsable |-> FALSE, program |-> ExampleProgram] }

\* What fs.promises.readFile gives for a file of the listing; a file that is
\* no source file holds no program.
Held(file) ==
  IF file \in DOMAIN sources THEN sources[file]
  ELSE [unparsable |-> TRUE, program |-> <<>>]

\* findFunctionsInFile as a function of ast.body
findFunctionsInFile(nodes) == Flatten([k \in 1..Len(nodes) |-> SymbolsOf(nodes[k])])

\* The loop of getFileList of function-utils.ts: stat first, then a directory
\* is tested with a trailing slash and entered, a file is tested and pushed.
RECURSIVE ListLoop(_, _, _)
ListLoop(dir, names, rules) ==
  IF names = <<>> THEN [error |-> NoError, fileList |-> <<>>]
  ELSE LET entry == Append(dir, Head(names))
           rest == ListLoop(dir, Tail(names), rules)
       IN  IF entry \in denied THEN [error |-> "EACCES", fileList |-> <<>>]
           ELSE IF IsDirectory(entry)
           THEN IF Ignores(rules, entry, TRUE) THEN rest
                ELSE LET sub == ListLoop(entry, Readdir(entry), rules)
                     IN  IF sub.error # NoError THEN sub
                         ELSE IF rest.error # NoError THEN rest
                         ELSE [error |-> NoError, fileList |-> sub.fileList \o rest.fileList]
           ELSE IF Ignores(rules, entry, FALSE) THEN rest
           ELSE IF rest.error # NoError THEN rest
           ELSE [error |-> NoError, fileList |-> <<entry>> \o rest.fileList]

\* getFileList(directory) of function-utils.ts, called with the root.
getFileList ==
  IF ~rootExists THEN [error |-> "ENOENT", fileList |-> <<>>]
  ELSE ListLoop(<<>>, Readdir(<<>>), RootRuleSet)

\* The test of the loop of getFunctionList that ends in continue.
\* Faulty variant: the file name of the request is not looked at.
SkippedWithoutFilter(file) == ~SourceFile(file) \/ ~IsFile(file)

\* Faulty variant: the end of the file name is not looked at.
SkippedWithoutExtension(file) ==
  \/ request.fileName # <<>> /\ request.fileName # file
  \/ ~IsFile(file)

Skipped(file) ==
  \/ request.fileName # <<>> /\ request.fileName # file
  \/ ~SourceFile(file)
  \/ ~IsFile(file)

ListRequest == request.kind \in {"getAllFunctions", "getFunctionsInFile"}

\* await getFileList(directory) rejects; the handler passes the error on.
ListFilesThrow ==
  /\ ListRequest /\ lpc = "start"
  /\ getFileList.error # NoError
  /\ lpc' = "failed"
  /\ thrown' = FsError(getFileList.error)
  /\ res' = handleErrors(thrown')
  /\ UNCHANGED <<request, sources, files, functionList, readLog>>
  /\ UNCHANGED <<ast, cursor, functions, fileContent, unparsable, functionName, functionCode>>
  /\ UNCHANGED <<fsVars, runVars, minVars, httpVars, cmdVars>>

\* await getFileList(directory) resolves.
ListFiles ==
  /\ ListRequest /\ lpc = "start"
  /\ getFileList.error = NoError
  /\ lpc' = "loop"
  /\ files' = getFileList.fileList
  /\ UNCHANGED <<request, sources, functionList, readLog>>
  /\ UNCHANGED <<fsVars, runVars, fnVars, minVars, httpVars, cmdVars>>

\* continue
ListContinue ==
  /\ lpc = "loop" /\ files # <<>>
  /\ Skipped(Head(files))
  /\ files' = Tail(files)
  /\ UNCHANGED <<request, sources, lpc, functionList, readLog>>
  /\ UNCHANGED <<fsVars, runVars, fnVars, minVars, httpVars, cmdVars>>

\* Faulty variant of ListParseThrow: the error of the parser is swallowed
\* and the file gets an entry without functions.
ListParseSwallowed ==
  /\ lpc = "loop" /\ files # <<>>
  /\ ~Skipped(Head(files))
  /\ Held(Head(files)).unparsable
  /\ readLog' = Append(readLog, Head(files))
  /\ functionList' = Append(functionList, [fileName |-> Head(files), functions |-> <<>>])
  /\ files' = Tail(files)
  /\ UNCHANGED <<request, sources, lpc>>
  /\ UNCHANGED <<fsVars, runVars, fnVars, minVars, httpVars, cmdVars>>

\* The file is read and parse(content) throws.
ListParseThrow ==
  /\ lpc = "loop" /\ files # <<>>
  /\ ~Skipped(Head(files))
  /\ Held(Head(files)).unparsable
  /\ readLog' = Append(readLog, Head(files))
  /\ lpc' = "failed"
  /\ thrown' = SyntaxError
  /\ res' = handleErrors(SyntaxError)
  /\ UNCHANGED <<request, sources, files, functionList>>
  /\ UNCHANGED <<ast, cursor, functions, fileContent, unparsable, functionName, functionCode>>
  /\ UNCHANGED <<fsVars, runVars, minVars, httpVars, cmdVars>>

\* The file is read and parsed and its entry is pushed.
ListParse ==
  /\ lpc = "loop" /\ files # <<>>
  /\ ~Skipped(Head(files))
  /\ ~Held(Head(files)).unparsable
  /\ readLog' = Append(readLog, Head(files))
  /\ functionList' = Append(functionList,
       [fileName |-> Head(files),
        functions |-> findFunctionsInFile(Layout(Held(Head(files)).program, 0))])
  /\ files' = Tail(files)
  /\ UNCHANGED <<request, sources, lpc>>
  /\ UNCHANGED <<fsVars, runVars, fnVars, minVars, httpVars, cmdVars>>

\* return functionList; the handler sends it.
ListReturn ==
  /\ lpc = "loop" /\ files = <<>>
  /\ lpc' = "done"
  /\ res' = Json(200, "none")
  /\ UNCHANGED <<request, sources, files, functionList, readLog>>
  /\ UNCHANGED <<ast, cursor, functions, fileContent, unparsable, functionName, functionCode, thrown>>
  /\ UNCHANGED <<fsVars, runVars, minVars, httpVars, cmdVars>>

SourceFilesIn(t) == { f \in t : SourceFile(f) /\ ~\E q \in t : IsStrictPrefix(f, q) }

\* The requests: GET /functions, GET /files/f/functions for an existing
\* regular file f, GET /files/f/functions/name for a source file f.
Requests ==
  {[kind |-> "getAllFunctions", fileName |-> <<>>]}
  \cup {[kind |-> "getFunctionsInFile", fileName |-> f] : f \in {q \in tree : IsFile(q)}}
  \cup {[kind |-> "getFunctionContent", fileName |-> f] : f \in SourceFilesIn(tree)}

InitList ==
  /\ root = [abs |-> FALSE, segs |-> <<>>]
  /\ rootExists \in BOOLEAN
  /\ tree \in (IF rootExists THEN TreesIn(ListUniverse, MaxListEntries) ELSE {{}})
  /\ buildIsFile = FALSE
  /\ denied \in {{}} \cup {{q} : q \in tree \cap Deniable}
  /\ rootText \in (IF <<RuleFile>> \in tree THEN RootTexts ELSE {<<>>})
  /\ nestedText = <<>>
  /\ descending = FALSE
  /\ InitRun /\ InitNoMinimize /\ InitNoHttp /\ InitNoCommand
  /\ sources \in [SourceFilesIn(tree) -> FileSources]
  /\ request \in Requests
  /\ lpc = "start" /\ files = <<>> /\ functionList = <<>> /\ readLog = <<>>
  /\ res = NoResponse /\ thrown = NoThrow /\ functionCode = Pending
  /\ cursor = 1 /\ functions = <<>>
  /\ IF request.kind = "getFunctionContent"
     THEN /\ functionName \in {"foo", "nope"}
          /\ unparsable = sources[request.fileName].unparsable
          /\ fileContent = Source(sources[request.fileName].program)
                             \o (IF unparsable THEN <<"}">> ELSE <<>>)
          /\ ast = IF unparsable THEN <<>> ELSE Layout(sources[request.fileName].program, 0)
     ELSE /\ functionName = NoName /\ unparsable = FALSE
          /\ fileContent = <<>> /\ ast = <<>>

NextList ==
  \/ ListFilesThrow
  \/ ListFiles
  \/ ListContinue
  \/ ListParseThrow
  \/ ListParse
  \/ ListReturn
  \/ ScanNode
  \/ ParseThrow
  \/ GetFunctionContent

SpecList == InitList /\ [][NextList]_vars

\* --------------------------------------------- claims on getFunctionList

EntryNames == [k \in 1..Len(functionList) |-> functionList[k].fileName]

\* C15: when the source of the file does not parse, getFunctionData and
\* getFunctionList fail with the error of the parser: no symbol list and no
\* "function not found" is reported for an unparsable file.
C15_UnparsableFileFails ==
  /\ functionName # NoName /\ unparsable /\ res # NoResponse =>
       /\ thrown = SyntaxError /\ functionCode = Pending
       /\ res = handleErrors(SyntaxError) /\ res # NotFound /\ res.status # 200
  /\ \A k \in 1..Len(readLog) :
       Held(readLog[k]).unparsable =>
         /\ lpc = "failed" /\ thrown = SyntaxError
         /\ res = handleErrors(SyntaxError) /\ res.status # 200
         /\ readLog[k] \notin SeqToSet(EntryNames)
  /\ \A k \in 1..Len(functionList) : ~Held(functionList[k].fileName).unparsable

\* C15 witness: the list of all functions failed at an unparsable file after
\* the entry of another file had been pushed.
C15_Witness ==
  /\ request.kind = "getAllFunctions" /\ lpc = "failed"
  /\ thrown = SyntaxError /\ functionList # <<>>

\* C18 as claimed: with a file filter that names an existing regular file the
\* returned list has exactly one entry, for that file.
C18_FilterGivesOneEntry ==
  request.kind = "getFunctionsInFile" /\ lpc = "done" =>
    EntryNames = <<request.fileName>>

\* The file is returned by getFileList(root).
Listed(file) == file \in SeqToSet(getFileList.fileList)

\* C18 amended: with a file filter the returned list has no entry for another
\* file, and it has exactly one entry, for the file of the filter, when that
\* file is listed by getFileList(root) and its name ends in .ts or .js;
\* otherwise it is empty.
C18_FilterGivesOneEntryForListedSource ==
  request.kind = "getFunctionsInFile" /\ lpc = "done" =>
    EntryNames = IF Listed(request.fileName) /\ SourceFile(request.fileName)
                 THEN <<request.fileName>> ELSE <<>>

\* C18 witness: the list for one file was returned while another source
\* file is listed.
C18_Witness ==
  /\ request.kind = "getFunctionsInFile" /\ lpc = "done"
  /\ EntryNames = <<request.fileName>>
  /\ \E f \in SeqToSet(getFileList.fileList) : f # request.fileName /\ SourceFile(f)

ListedSources == SelectSeq(getFileList.fileList, SourceFile)

\* C19: without a file filter the files read and parsed are files that
\* getFileList(root) returns and whose names end in .ts or .js, never a file
\* excluded by the rule set; the returned list has one entry for each such
\* file in listing order, with the symbols of the file (none for a file
\* without indexed functions).
C19_ListsEveryListedSource ==
  request.kind = "getAllFunctions" =>
    /\ IsPrefix(readLog, ListedSources)
    /\ \A k \in 1..Len(readLog) : ~Ignores(RootRuleSet, readLog[k], FALSE)
    /\ lpc = "done" =>
         /\ readLog = ListedSources
         /\ EntryNames = ListedSources
         /\ \A k \in 1..Len(functionList) :
              functionList[k].functions =
                findFunctionsInFile(Layout(Held(functionList[k].fileName).program, 0))

\* C19 witness: the list was returned with an entry without symbols and an
\* entry with symbols, while a source file is excluded by the rule set and
\* another file is no source file.
C19_Witness ==
  /\ request.kind = "getAllFunctions" /\ lpc = "done"
  /\ \E k \in 1..Len(functionList) : functionList[k].functions = <<>>
  /\ \E k \in 1..Len(functionList) : functionList[k].functions # <<>>
  /\ \E f \in SourceFilesIn(tree) : Ignores(RootRuleSet, f, FALSE)

\* ------------------------------------- claim on the subdirectory listing

Under(d, list) == SelectSeq(list, LAMBDA f : IsStrictPrefix(d, f))

\* C20: the listing of a subdirectory d is the part of the listing of the
\* root that lies under d.
C20_SubdirectoryListingIsRestriction ==
  Done(1) /\ Done(2) => ret[2] = Under(request.fileName, ret[1])

\* ------------------------------------------ the /files/* routes (index.ts)

\* Largest number of characters of a file that is read.
MaxFileChars == 2

\* BASE_PATH: the directory /p.  Paths are absolute: sequences of segments.
BASE_PATH == <<"p">>

\* decodeURIComponent on one segment of a file name.
DecodeSegment(s) ==
  CASE s = "%2E%2E" -> ".."
    [] s = "%252E%252E" -> "%2E%2E"
    [] OTHER -> s

decodeURIComponent(name) == [k \in 1..Len(name) |-> DecodeSegment(name[k])]

\* path.normalize: a '..' segment removes the segment before it, and nothing
\* at the root of the file system.
RECURSIVE Normalize(_, _)
Normalize(seen, rest) ==
  IF rest = <<>> THEN seen
  ELSE IF Head(rest) = ".."
       THEN Normalize(IF seen = <<>> THEN <<>> ELSE Front(seen), Tail(rest))
  ELSE Normalize(Append(seen, Head(rest)), Tail(rest))

\* path.join(base, name)
PathJoin(base, name) == Normalize(<<>>, base \o name)

\* path.dirname(path)
PathDirname(path) == IF path = <<>> THEN <<>> ELSE Front(path)

resolveFilePath(fileName) == PathJoin(BASE_PATH, decodeURIComponent(fileName))

\* readFileContent: the file path of the request, from req.params[0].
FilePath == resolveFilePath(decodeURIComponent(hreq.name))

\* postNewFile: the file path of the request.
PostPath == PathJoin(BASE_PATH, hreq.name)

NoEntry == [kind |-> "none", content |-> <<>>, readable |-> FALSE]

DirEntry == [kind |-> "dir", content |-> <<>>, readable |-> TRUE]

FileEntry(text, readable) == [kind |-> "file", content |-> text, readable |-> readable]

\* fs.promises.stat: what is at the path.
Stat(path) == IF path \in DOMAIN disk THEN disk[path] ELSE NoEntry

\* isDirectory of file-utils.ts: false for a path that cannot be read.
isDirectory(path) == Stat(path).kind = "dir"

\* The regular files under a directory: what getFileList(filePath) returns in
\* a file system without rule files and without node_modules.
FilesUnder(dir) ==
  { q \in DOMAIN disk : Stat(q).kind = "file" /\ IsStrictPrefix(dir, q) }

\* The error validateParams passes to next: { error, validationErrors }.
ValidationFailed == [name |-> "Error", code |-> "none", validation |-> TRUE]

\* { error: 'No content found in file', fileName }
NoContentFound == [name |-> "Object", code |-> "none", validation |-> FALSE]

\* A response: status, error message, content of a file, list of files.
Body(json, content, list) ==
  [status |-> json.status, error |-> json.error, content |-> content, files |-> list]

\* What the handler has said so far.
Http == [writes |-> writes, sent |-> sent, nexts |-> nexts]

SetHttp(h) == writes' = h.writes /\ sent' = h.sent /\ nexts' = h.nexts

\* res.status(..).json(..) or res.send(..): the first call sends the response,
\* a later one throws ERR_HTTP_HEADERS_SENT and sends nothing.
Write(h, r) ==
  [h EXCEPT !.writes = Append(@, r), !.sent = IF @ = <<>> THEN <<r>> ELSE @]

\* next(err): Express calls handleErrors, the only error handler.  The error
\* is logged with the response handleErrors passes to res.send or res.json.
NextErr(h, error) ==
  Write([h EXCEPT !.nexts = Append(@, [error |-> error, answer |-> handleErrors(error)])],
        Body(handleErrors(error), <<>>, {}))

\* A response written in a try block whose catch calls next(err).
TryWrite(h, r) ==
  IF h.sent = <<>> THEN Write(h, r)
  ELSE NextErr(Write(h, r), FsError("ERR_HTTP_HEADERS_SENT"))

\* validateParams(req, res, next): the handler ignores what it returns.
validateParams(h) == IF hreq.invalid THEN NextErr(h, ValidationFailed) ELSE h

\* A call of the file system; late when an error was passed to next before.
Access(op, path, h) ==
  Append(accessLog, [op |-> op, path |-> path, late |-> h.nexts # <<>>])

\* getFileOrFolderContent up to its await of isDirectory(filePath).
GetStart ==
  /\ hreq.method = "GET" /\ hpc = "start"
  /\ LET h == validateParams(Http)
     IN  /\ SetHttp(h)
         /\ accessLog' = Access("stat", FilePath, h)
  /\ hpc' = "stat"
  /\ UNCHANGED <<disk, original, overwrite, hreq>>
  /\ UNCHANGED <<fsVars, runVars, fnVars, minVars, listVars, cmdVars>>

\* isDirectory resolved: getFileList(filePath) or readFileContent(req) is called.
GetStat ==
  /\ hreq.method = "GET" /\ hpc = "stat"
  /\ hpc' = IF isDirectory(FilePath) THEN "list" ELSE "read"
  /\ accessLog' = Access(IF isDirectory(FilePath) THEN "readdir" ELSE "readFile",
                         FilePath, Http)
  /\ UNCHANGED <<disk, original, overwrite, hreq, writes, sent, nexts>>
  /\ UNCHANGED <<fsVars, runVars, fnVars, minVars, listVars, cmdVars>>

\* getFileList resolved: the list is sent.
GetList ==
  /\ hreq.method = "GET" /\ hpc = "list"
  /\ SetHttp(TryWrite(Http, Body(Json(200, "none"), <<>>, FilesUnder(FilePath))))
  /\ hpc' = "done"
  /\ UNCHANGED <<disk, original, overwrite, hreq, accessLog>>
  /\ UNCHANGED <<fsVars, runVars, fnVars, minVars, listVars, cmdVars>>

\* readFile settled: the error, the absence of content, or the range
\* fileContent.substring(startByte, endByte).
GetRead ==
  /\ hreq.method = "GET" /\ hpc = "read"
  /\ LET entry == Stat(FilePath)
         text == entry.content
         startByte == IF hreq.startByte = <<>> THEN 0 ELSE hreq.startByte[1]
         endByte == IF hreq.endByte = <<>> THEN Len(text) - 1 ELSE hreq.endByte[1]
     IN  SetHttp(IF entry.kind = "none" THEN NextErr(Http, FsError("ENOENT"))
                 ELSE IF ~entry.readable THEN NextErr(Http, FsError("EACCES"))
                 ELSE IF text = <<>> THEN NextErr(Http, NoContentFound)
                 ELSE TryWrite(Http, Body(Json(200, "none"),
                                          Substring(text, startByte, endByte), {})))
  /\ hpc' = "done"
  /\ UNCHANGED <<disk, original, overwrite, hreq, accessLog>>
  /\ UNCHANGED <<fsVars, runVars, fnVars, minVars, listVars, cmdVars>>

\* The timer of timeout('15000ms') fires while the handler awaits and no
\* response was sent: connect-timeout passes an ETIMEDOUT error to next.
Timeout ==
  /\ hpc \notin {"start", "done"} /\ sent = <<>>
  /\ SetHttp(NextErr(Http, FsError("ETIMEDOUT")))
  /\ UNCHANGED <<disk, original, overwrite, hreq, hpc, accessLog>>
  /\ UNCHANGED <<fsVars, runVars, fnVars, minVars, listVars, cmdVars>>

\* ALLOW_OVERWRITE = process.env.ALLOW_OVERWRITE ?? false, as a condition:
\* every string but the empty one is truthy.
ALLOW_OVERWRITE == overwrite \notin {"unset", ""}

\* ALLOW_OVERWRITE ? 'w' : 'wx'
OpenFlag == IF ALLOW_OVERWRITE THEN "w" ELSE "wx"

\* postNewFile up to its await of mkdir.
PostStart ==
  /\ hreq.method = "POST" /\ hpc = "start"
  /\ LET h == validateParams(Http)
     IN  IF hreq.content = <<>>
         THEN /\ SetHttp(Write(h, Body(Json(400, "Missing file content."), <<>>, {})))
              /\ hpc' = "done"
              /\ UNCHANGED accessLog
         ELSE /\ SetHttp(h)
              /\ hpc' = "mkdir"
              /\ accessLog' = Access("mkdir", PathDirname(PostPath), h)
  /\ UNCHANGED <<disk, original, overwrite, hreq>>
  /\ UNCHANGED <<fsVars, runVars, fnVars, minVars, listVars, cmdVars>>

Prefixes(path) == { Prefix(path, k) : k \in 0..Len(path) }

\* mkdir(path.dirname(filePath), { recursive: true }) settled: the missing
\* directories exist, or a file is in the way; then open is called.
PostMkdir ==
  /\ hreq.method = "POST" /\ hpc = "mkdir"
  /\ LET dir == PathDirname(PostPath)
     IN  IF \E q \in Prefixes(dir) : Stat(q).kind = "file"
         THEN /\ SetHttp(NextErr(Http, FsError("EEXIST")))
              /\ hpc' = "done"
              /\ UNCHANGED <<disk, accessLog>>
         ELSE /\ disk' = [q \in DOMAIN disk \cup Prefixes(dir) |->
                            IF q \in DOMAIN disk THEN disk[q] ELSE DirEntry]
              /\ hpc' = "open"
              /\ accessLog' = Access("open", PostPath, Http)
              /\ UNCHANGED <<writes, sent, nexts>>
  /\ UNCHANGED <<original, overwrite, hreq>>
  /\ UNCHANGED <<fsVars, runVars, fnVars, minVars, listVars, cmdVars>>

\* open(filePath, flag) settled: 'wx' fails for a path that exists, 'w'
\* empties the file; writeFile is called.
PostOpen ==
  /\ hreq.method = "POST" /\ hpc = "open"
  /\ LET entry == Stat(PostPath)
         failure == IF entry.kind = "dir" THEN "EISDIR"
                    ELSE IF entry.kind = "file" /\ OpenFlag = "wx" THEN "EEXIST"
                    ELSE IF entry.kind = "file" /\ ~entry.readable THEN "EACCES"
                    ELSE NoError
     IN  IF failure # NoError
         THEN /\ SetHttp(NextErr(Http, FsError(failure)))
              /\ hpc' = "done"
              /\ UNCHANGED <<disk, accessLog>>
         ELSE /\ disk' = [q \in DOMAIN disk \cup {PostPath} |->
                            IF q = PostPath THEN FileEntry(<<>>, TRUE) ELSE disk[q]]
              /\ hpc' = "write"
              /\ accessLog' = Access("writeFile", PostPath, Http)
              /\ UNCHANGED <<writes, sent, nexts>>
  /\ UNCHANGED <<original, overwrite, hreq>>
  /\ UNCHANGED <<fsVars, runVars, fnVars, minVars, listVars, cmdVars>>

\* writeFile and close resolved: 201.
PostWrite ==
  /\ hreq.method = "POST" /\ hpc = "write"
  /\ disk' = [disk EXCEPT ![PostPath] = FileEntry(hreq.content, TRUE)]
  /\ SetHttp(TryWrite(Http, Body(Json(201, "none"), <<>>, {})))
  /\ hpc' = "done"
  /\ UNCHANGED <<original, overwrite, hreq, accessLog>>
  /\ UNCHANGED <<fsVars, runVars, fnVars, minVars, listVars, cmdVars>>

\* The texts of the file /p/a: the first characters of abcabc...
FileTexts ==
  { [k \in 1..n |-> <<"a", "b", "c">>[((k - 1) % 3) + 1]] : n \in 0..MaxFileChars }

\* The file systems: /p and, outside it, the file /s; /p/a may be a file and
\* /p/d a directory with a file.
Disks ==
  { [q \in {<<>>, <<"p">>, <<"s">>}
           \cup (IF a.kind = "none" THEN {} ELSE {<<"p", "a">>})
           \cup (IF d THEN {<<"p", "d">>, <<"p", "d", "a">>} ELSE {}) |->
       IF q = <<"p", "a">> THEN a
       ELSE IF q \in {<<"s">>, <<"p", "d", "a">>} THEN FileEntry(<<"s", "t">>, TRUE)
       ELSE DirEntry] :
    a \in {NoEntry} \cup {FileEntry(text, r) : text \in FileTexts, r \in BOOLEAN},
    d \in BOOLEAN }

\* req.params[0] as Express decoded it.
RequestedNames ==
  { <<"a">>, <<"d">>, <<"d", "a">>, <<"a", "n">>,
    <<"..", "s">>, <<"%2E%2E", "s">>, <<"%252E%252E", "s">> }

\* A query parameter: absent, or a number.
QueryValues == {<<>>} \cup { <<n>> : n \in 0..MaxFileChars }

\* The requests; invalid when the request has a field 0 that is no string.
HttpRequests ==
  [method : {"GET"}, name : RequestedNames, startByte : QueryValues,
   endByte : QueryValues, content : {<<>>}, invalid : BOOLEAN]
  \cup
  [method : {"POST"}, name : RequestedNames, startByte : {<<>>},
   endByte : {<<>>}, content : {<<>>, <<"n", "e", "w">>}, invalid : BOOLEAN]

\* The values of the environment variable ALLOW_OVERWRITE.
EnvValues == {"unset", "", "false", "0", "true"}

InitHttp ==
  /\ InitNoFs /\ InitRun
  /\ ast = <<>> /\ cursor = 1 /\ functions = <<>>
  /\ InitNoRequest /\ InitNoMinimize /\ InitNoList /\ InitNoCommand
  /\ disk \in Disks
  /\ original = disk
  /\ overwrite \in EnvValues
  /\ hreq \in HttpRequests
  /\ hpc = "start" /\ writes = <<>> /\ sent = <<>> /\ nexts = <<>> /\ accessLog = <<>>

NextHttp ==
  \/ GetStart \/ GetStat \/ GetList \/ GetRead
  \/ PostStart \/ PostMkdir \/ PostOpen \/ PostWrite
  \/ Timeout

SpecHttp == InitHttp /\ [][NextHttp]_vars

\* ------------------------------------------- claims on the /files/* routes

\* The request was answered without a validation failure or a timeout.
Undisturbed ==
  \A k \in 1..Len(nexts) : ~nexts[k].error.validation /\ nexts[k].error.code # "ETIMEDOUT"

\* C21: GET /files/{fileName} for a readable regular file, without startByte
\* and endByte, answers with the complete content of the file.
C21_WholeFileWithoutRange ==
  ( /\ hreq.method = "GET" /\ hpc = "done" /\ Undisturbed
    /\ hreq.startByte = <<>> /\ hreq.endByte = <<>>
    /\ Stat(FilePath).kind = "file" /\ Stat(FilePath).readable )
  => /\ Len(sent) = 1
     /\ sent[1].status = 200
     /\ sent[1].content = Stat(FilePath).content

\* ------------------------------------- claims on the traversal (file-utils)

\* The paths of a file system with symbolic links to an ancestor directory.
LinkUniverse ==
  { <<RuleFile>>, <<"x">>, <<LinkName>>, <<"d">>, <<"d", LinkName>>, <<"d", "x">> }

\* One traversal of a file system that may hold symbolic links.
InitLinks ==
  /\ root \in Roots
  /\ rootExists \in BOOLEAN
  /\ tree \in (IF rootExists THEN TreesIn(LinkUniverse, MaxLinkEntries) ELSE {{}})
  /\ buildIsFile = FALSE
  /\ denied = {}
  /\ rootText \in (IF <<RuleFile>> \in tree THEN RootTexts ELSE {<<>>})
  /\ nestedText = <<>>
  /\ descending \in BOOLEAN
  /\ InitRun /\ InitNoProgram

SpecLinks == InitLinks /\ [][Next]_vars

\* C22: in a traversal of a root with a rule file and no other rule file, the
\* rules are the two permanent ones followed by the patterns of the lines of
\* the root rule file that do not start with a hash, each without one leading
\* slash, once and in file order.
C22_RootRulesAddedOnce ==
  ( /\ Done(1)
    /\ <<RuleFile>> \in tree
    /\ ~\E q \in tree : Len(q) > 1 /\ IsRuleFile(q) )
  => ig[1] = RootRuleSet

\* The file f is met before the file g by a depth-first walk that takes the
\* entries of every directory in readdir order: where the two paths part,
\* the entry towards f is listed before the entry towards g.
MetBefore(f, g) ==
  \E k \in 1..Len(f) :
    /\ k <= Len(g)
    /\ \A j \in 1..(k - 1) : f[j] = g[j]
    /\ LET names == Readdir(Prefix(f, k - 1))
       IN  \E a, b \in 1..Len(names) : a < b /\ names[a] = f[k] /\ names[b] = g[k]

\* C23: the result is in depth-first discovery order: the entries of a
\* directory in readdir order, the files of a subdirectory together at the
\* position of the subdirectory.
C23_DepthFirstOrder ==
  Done(1) => \A a, b \in 1..Len(ret[1]) : a < b => MetBefore(ret[1][a], ret[1][b])

\* A file of a subdirectory is returned between two files of its parent.
C23_Witness ==
  /\ Done(1)
  /\ \E a, b, c \in 1..Len(ret[1]) :
       /\ a < b /\ b < c
       /\ Len(ret[1][a]) = 1 /\ Len(ret[1][b]) = 2 /\ Len(ret[1][c]) = 1

\* C24: a regular file is skipped only when its path without a trailing
\* separator matches a rule: the test with the separator prunes directories
\* only.
C24_TrailingSeparatorPrunesOnlyDirectories ==
  \A f \in pruned[1] : IsFile(f) => Ignores(ig[1], f, FALSE)

\* ---------------------------------------------- claim on the error handler

\* C25: handleErrors answers an error with one response, which it passes to
\* res.send or res.json: 404 File not found for ENOENT, 403 Permission denied
\* for EACCES, 500 with the timeout message for ETIMEDOUT, 400 with the
\* details for a validation failure, and 500 Internal server error for any
\* other error.
C25_ErrorsMapToOneResponse ==
  \A k \in 1..Len(nexts) :
    LET error == nexts[k].error
        answer == nexts[k].answer
    IN  /\ error.code = "ENOENT" =>
             answer = [status |-> 404, error |-> "File not found"]
        /\ error.code = "EACCES" =>
             answer = [status |-> 403, error |-> "Permission denied"]
        /\ error.code = "ETIMEDOUT" =>
             answer = [status |-> 500, error |-> "Response timed out"]
        /\ error.code = "none" /\ error.validation =>
             answer = [status |-> 400, error |-> "Validation failed"]
        /\ error.code \notin {"ENOENT", "EACCES", "ETIMEDOUT"} /\ ~error.validation =>
             answer = [status |-> 500, error |-> "Internal server error"]
        /\ \E j \in 1..Len(writes) :
             writes[j].status = answer.status /\ writes[j].error = answer.error

\* A file that cannot be read was asked for and the client was answered 403.
C25_Witness ==
  /\ \E k \in 1..Len(nexts) : nexts[k].error.code = "EACCES"
  /\ Len(sent) = 1 /\ sent[1].status = 403

\* An error without a case of its own was handled.
C25_WitnessOther ==
  \E k \in 1..Len(nexts) :
    /\ nexts[k].error.code \notin {"ENOENT", "EACCES", "ETIMEDOUT"}
    /\ ~nexts[k].error.validation

\* ------------------------------------------------ runCommand (cmd-runner)

\* Largest number of white space characters before and after a command.
MaxPadding == 1

\* A command is a sequence of words and separators.
ALLOWED_COMMANDS ==
  { <<"yarn", " ", "test">>, <<"npm", " ", "test">>, <<"npm", " ", "run", " ", "test">>,
    <<"yarn", " ", "install">>, <<"npm", " ", "install">> }

\* The characters String.prototype.trim removes.
WhiteSpace == {" ", "\n"}

RECURSIVE TrimStart(_)
TrimStart(s) == IF s # <<>> /\ Head(s) \in WhiteSpace THEN TrimStart(Tail(s)) ELSE s

\* command.trim()
Trim(s) == Reverse(TrimStart(Reverse(TrimStart(s))))

\* Faulty variant of Allowed: a command that begins with an allowed one.
AllowedByPrefix(c) == \E a \in ALLOWED_COMMANDS : IsPrefix(a, Trim(c))

\* ALLOWED_COMMANDS.includes(command.trim())
Allowed(c) == Trim(c) \in ALLOWED_COMMANDS

\* runCommand(command, base_path, strict) up to the promise it returns: it
\* throws, or spawn is given the command as it came.
RunCommand ==
  /\ outcome = "none"
  /\ IF command = <<>> \/ (strict /\ ~Allowed(command))
     THEN outcome' = "thrown" /\ UNCHANGED spawned
     ELSE outcome' = "running" /\ spawned' = Append(spawned, command)
  /\ UNCHANGED <<command, strict>>
  /\ UNCHANGED <<fsVars, runVars, fnVars, minVars, listVars, httpVars>>

\* The child process emits close: the promise resolves.
ChildClose ==
  /\ outcome = "running"
  /\ outcome' = "resolved"
  /\ UNCHANGED <<command, strict, spawned>>
  /\ UNCHANGED <<fsVars, runVars, fnVars, minVars, listVars, httpVars>>

\* The child process emits error: the promise rejects.
ChildError ==
  /\ outcome = "running"
  /\ outcome' = "rejected"
  /\ UNCHANGED <<command, strict, spawned>>
  /\ UNCHANGED <<fsVars, runVars, fnVars, minVars, listVars, httpVars>>

\* White space of at most n characters.
RECURSIVE Paddings(_)
Paddings(n) ==
  IF n = 0 THEN {<<>>}
  ELSE LET prev == Paddings(n - 1)
       IN  prev \cup { Append(s, c) : s \in prev, c \in WhiteSpace }

\* The commands a client sends: the allowed ones and others, with white space
\* around them.
Commands ==
  { pre \o c \o post :
      c \in ALLOWED_COMMANDS \cup
            { <<>>, <<"rm">>, <<"yarn">>, <<"yarn", "test">>, <<"npm", " ", "list">>,
              <<"yarn", " ", "test", ";", "rm">>, <<"rm", ";", "yarn", " ", "test">>,
              <<"yarn", " ", "\n", "test">> },
      pre \in Paddings(MaxPadding), post \in Paddings(MaxPadding) }

\* POST /run-command calls runCommand in strict mode, the dependency routes
\* call it with strict = false.
InitCommand ==
  /\ InitNoFs /\ InitRun
  /\ ast = <<>> /\ cursor = 1 /\ functions = <<>>
  /\ InitNoRequest /\ InitNoMinimize /\ InitNoList /\ InitNoHttp
  /\ command \in Commands
  /\ strict \in BOOLEAN
  /\ spawned = <<>>
  /\ outcome = "none"

NextCommand == RunCommand \/ ChildClose \/ ChildError

SpecCommand == InitCommand /\ [][NextCommand]_vars

\* ------------------------------------------------- claim on runCommand

\* The text is one of the five allowed commands.
OneOfTheFive(text) ==
  \/ text = <<"yarn", " ", "test">>
  \/ text = <<"npm", " ", "test">>
  \/ text = <<"npm", " ", "run", " ", "test">>
  \/ text = <<"yarn", " ", "install">>
  \/ text = <<"npm", " ", "install">>

\* The command is an allowed one with nothing but white space around it.
AllowedAfterTrimming ==
  \E a, b \in 0..Len(command) :
    /\ a + b <= Len(command)
    /\ \A k \in 1..a : command[k] \in {" ", "\n"}
    /\ \A k \in (Len(command) - b + 1)..Len(command) : command[k] \in {" ", "\n"}
    /\ OneOfTheFive(SubSeq(command, a + 1, Len(command) - b))

\* C26: in strict mode runCommand starts a child process only for a command
\* that is, after trimming, one of the five allowed commands; for an empty
\* command and for any other command it throws and no process is spawned.
C26_StrictModeSpawnsOnlyAllowed ==
  strict /\ outcome # "none" =>
    IF AllowedAfterTrimming
    THEN spawned = <<command>> /\ outcome # "thrown"
    ELSE spawned = <<>> /\ outcome = "thrown"

\* An allowed command with white space around it was spawned in strict mode,
\* as it came.
C26_Witness ==
  /\ strict /\ outcome = "resolved"
  /\ spawned = << <<" ", "npm", " ", "run", " ", "test", "\n">> >>

\* --------------------------------------------- claim on symbolic links

FailureReported ==
  /\ nexts # <<>>
  /\ nexts[1].error.validation \/ nexts[1].error.code = "ETIMEDOUT"

\* C28: once validateParams has reported a validation failure or the request
\* timeout has passed its error to the error handler, the route handler makes
\* no further file system call, sends no second response and does not call
\* next a second time.
C28_HandlerStopsAfterFailure ==
  FailureReported =>
    /\ \A k \in 1..Len(accessLog) : ~accessLog[k].late
    /\ Len(writes) = 1
    /\ Len(nexts) = 1

\* ------------------------------------------- claim on the paths of a request

\* C29: whatever the file name of a request to a /files/* route, every path
\* the handler reads, lists or writes lies inside BASE_PATH.
C29_PathsStayInsideBasePath ==
  \A k \in 1..Len(accessLog) : IsPrefix(BASE_PATH, accessLog[k].path)

\* ---------------------------------------------- claim on POST /files/*

\* The files that existed when the request arrived are as they were.
ExistingFilesUnchanged ==
  \A q \in DOMAIN original :
    original[q].kind = "file" => q \in DOMAIN disk /\ disk[q] = original[q]

\* C30: POST /files/{fileName} changes no existing file unless overwriting is
\* enabled: with ALLOW_OVERWRITE unset, empty or set to a value that means
\* false, a request for an existing file fails and the file is unchanged; a
\* request without content is answered 400 and creates nothing.
C30_NoOverwriteUnlessEnabled ==
  hreq.method = "POST" =>
    /\ overwrite \in {"unset", "", "false", "0"} =>
         /\ ExistingFilesUnchanged
         /\ hpc = "done" /\ PostPath \in DOMAIN original /\ original[PostPath].kind = "file"
              => sent[1].status # 201
    /\ hreq.content = <<>> /\ hpc = "done" =>
         sent[1].status = 400 /\ disk = original
====
